---- MODULE Spec2Model ----
(***************************************************************************)
(* ABC-to-MIDI converter: the ABC parser (src/src/abcParser.js).           *)
(*                                                                         *)
(* A JavaScript string is modelled as a sequence of one-character strings, *)
(* so that trim, split, startsWith, substring, the regular expressions and *)
(* parseInt are computed character by character as the engine does.        *)
(***************************************************************************)
EXTENDS Integers, Sequences, FiniteSets, TLC

VARIABLES
    abcString,          \* the argument of parse
    pc,                 \* position in parse / parseHeader / parseBody
    lines,              \* parse: abcString.trim().split('\n')
    i,                  \* parseHeader: loop index (0-based, as in the code)
    header,             \* parseHeader: the header object under construction
    bodyText,           \* parseBody: lines.join(' ')
    lastIndex,          \* parseBody: notePattern.lastIndex (0-based)
    match,              \* parseBody: the last result of notePattern.exec
    notes,              \* parseBody: the notes array
    currentOctave,      \* parseBody: let currentOctave
    currentAccidental,  \* parseBody: let currentAccidental
    result,             \* parse: the returned object
    tempoString,        \* the argument of a direct parseTempo call
    tempoResult,        \* the value that call returned
    midiNote,           \* MidiGenerator: the argument of midiNoteToPitch
    pitch,              \* MidiGenerator: the value midiNoteToPitch returned
    parsedMusic,        \* MidiGenerator: the argument of generate and the like
    instruments,        \* MidiGenerator: the names given to generateMultiTrack
    track,              \* MidiGenerator: the events of the track given to addEffects
    effects,            \* MidiGenerator: the effects given to addEffects
    midi,               \* MidiGenerator: the tracks handed to the writer
    validation,         \* the object a validate call returned
    metadata,           \* MidiGenerator: the metadata given to generateWithMetadata
    arg,                \* ABCToMidiConverter: the first argument of convert
    options,            \* ABCToMidiConverter: the second argument of convert
    conversion,         \* ABCToMidiConverter: the object convert returned
    conversionHistory,  \* ABCToMidiConverter: this.conversionHistory
    stats,              \* ABCToMidiConverter: the object getConversionStats returned
    caller,             \* the method that is running, "none" between calls
    exception,          \* ABCToMidiConverter: the exception thrown inside try
    calls,              \* the number of calls made on the instances so far
    returned            \* what each parse call so far was given and returned

generatorVars == <<midiNote, pitch, parsedMusic, instruments, track, effects,
                   midi, validation, metadata>>

converterVars == <<arg, options, stats, conversion, conversionHistory, caller,
                   exception, calls, returned>>

vars == <<abcString, pc, lines, i, header, bodyText, lastIndex, match, notes,
          currentOctave, currentAccidental, result, tempoString, tempoResult,
          generatorVars, converterVars>>

---------------------------------------------------------------------------
(* Bounds of the model.                                                    *)

\* longest enumerated body text (characters)
MaxBodyLen == 3
\* most enumerated lines in a header block
MaxHeaderLines == 2
\* longest enumerated tempo field (characters)
MaxTempoLen == 5
\* most lines of a text given to extractMetadata
MaxMetadataLines == 2
\* most calls made on the entry points of one converter
MaxEntryCalls == 2

---------------------------------------------------------------------------
(* JavaScript values and string primitives.                                *)

Undefined == [kind |-> "undefined"]
Null == [kind |-> "null"]
NaN == [kind |-> "NaN"]
Num(n) == [kind |-> "number", value |-> n]
Str(s) == [kind |-> "string", value |-> s]

SetMin(S) == CHOOSE x \in S : \A y \in S : x <= y
SetMax(S) == CHOOSE x \in S : \A y \in S : x >= y

\* the characters String.prototype.trim removes (those the model's inputs use)
WhiteSpace == {" ", "\n", "\t", "\r"}
\* the characters the regex class \d matches
Digits == {"0", "1", "2", "3", "4", "5", "6", "7", "8", "9"}
\* the characters the regex class [A-Ga-g] matches
NoteLetters == {"A", "B", "C", "D", "E", "F", "G", "a", "b", "c", "d", "e", "f", "g"}
\* the characters the regex class [,'] matches
OctaveMarks == {",", "'"}

\* String.prototype.trim
Trim(s) ==
    LET keep == {k \in 1..Len(s) : s[k] \notin WhiteSpace}
    IN  IF keep = {} THEN <<>> ELSE SubSeq(s, SetMin(keep), SetMax(keep))

\* String.prototype.split(sep) for a one-character separator
Split(s, sep) ==
    LET P == {k \in 1..Len(s) : s[k] = sep}
        n == Cardinality(P)
        pos(j) == CHOOSE p \in P : Cardinality({q \in P : q < p}) = j - 1
        first(j) == IF j = 1 THEN 1 ELSE pos(j - 1) + 1
        last(j) == IF j = n + 1 THEN Len(s) ELSE pos(j) - 1
    IN  [j \in 1..(n + 1) |-> SubSeq(s, first(j), last(j))]

\* Array.prototype.join(sep) for a one-character separator
RECURSIVE Join(_, _)
Join(ls, sep) ==
    IF ls = <<>> THEN <<>>
    ELSE IF Len(ls) = 1 THEN ls[1]
    ELSE ls[1] \o <<sep>> \o Join(Tail(ls), sep)

\* Array.prototype.slice(n), n a 0-based index
Slice(ls, n) == SubSeq(ls, n + 1, Len(ls))

\* String.prototype.startsWith
StartsWith(s, prefix) ==
    /\ Len(s) >= Len(prefix)
    /\ SubSeq(s, 1, Len(prefix)) = prefix

\* String.prototype.substring(n), n a 0-based index
Substring(s, n) == SubSeq(s, n + 1, Len(s))

\* String.prototype.includes for one character
Includes(s, c) == \E k \in 1..Len(s) : s[k] = c

\* s.split(c).length - 1: the number of occurrences of c
CountOf(s, c) == Cardinality({k \in 1..Len(s) : s[k] = c})

\* String.prototype.toUpperCase on a note letter
ToUpperCase(c) ==
    CASE c = "a" -> "A" [] c = "b" -> "B" [] c = "c" -> "C" [] c = "d" -> "D"
      [] c = "e" -> "E" [] c = "f" -> "F" [] c = "g" -> "G" [] OTHER -> c

\* the 1-based index of the last character of the longest run of characters
\* of S that starts at 1-based index from (from - 1 when the run is empty)
RunEndIn(s, from, S) ==
    SetMax({e \in (from - 1)..Len(s) : \A k \in from..e : s[k] \in S})

\* the same for the characters not in S (a negated class)
RunEndNotIn(s, from, S) ==
    SetMax({e \in (from - 1)..Len(s) : \A k \in from..e : s[k] \notin S})

DigitValue(c) ==
    CASE c = "0" -> 0 [] c = "1" -> 1 [] c = "2" -> 2 [] c = "3" -> 3 [] c = "4" -> 4
      [] c = "5" -> 5 [] c = "6" -> 6 [] c = "7" -> 7 [] c = "8" -> 8 [] c = "9" -> 9

\* the value of a string of hexadecimal digits' characters, one at a time
HexDigits == Digits \cup {"a", "b", "c", "d", "e", "f", "A", "B", "C", "D", "E", "F"}
HexValue(c) ==
    CASE c \in Digits -> DigitValue(c)
      [] c \in {"a", "A"} -> 10 [] c \in {"b", "B"} -> 11 [] c \in {"c", "C"} -> 12
      [] c \in {"d", "D"} -> 13 [] c \in {"e", "E"} -> 14 [] c \in {"f", "F"} -> 15

\* the number a string of digits denotes in the given radix
RECURSIVE DigitsToNat(_, _)
DigitsToNat(s, radix) ==
    IF s = <<>> THEN 0
    ELSE DigitsToNat(SubSeq(s, 1, Len(s) - 1), radix) * radix + HexValue(s[Len(s)])

\* parseInt(s) without a radix: leading white space is skipped, a sign is
\* read, a 0x / 0X prefix selects base 16, then the longest run of digits is
\* taken; NaN when that run is empty
ParseInt(s) ==
    LET nonWs == {k \in 1..Len(s) : s[k] \notin WhiteSpace}
        t == IF nonWs = {} THEN <<>> ELSE SubSeq(s, SetMin(nonWs), Len(s))
        signed == t # <<>> /\ t[1] \in {"+", "-"}
        sign == IF t # <<>> /\ t[1] = "-" THEN -1 ELSE 1
        u == IF signed THEN Tail(t) ELSE t
        hex == Len(u) >= 2 /\ u[1] = "0" /\ u[2] \in {"x", "X"}
        v == IF hex THEN Substring(u, 2) ELSE u
        e == IF hex THEN RunEndIn(v, 1, HexDigits) ELSE RunEndIn(v, 1, Digits)
    IN  IF e = 0 THEN NaN
        ELSE Num(sign * DigitsToNat(SubSeq(v, 1, e), IF hex THEN 16 ELSE 10))

\* parseFloat on the digit string the regex group (\d*) captured
ParseFloat(s) == DigitsToNat(s, 10)

---------------------------------------------------------------------------
(* ABCParser: constructor tables.                                          *)

noteToMidi ==
    ("C" :> 60) @@ ("D" :> 62) @@ ("E" :> 64) @@ ("F" :> 65) @@ ("G" :> 67) @@
    ("A" :> 69) @@ ("B" :> 71) @@
    ("c" :> 72) @@ ("d" :> 74) @@ ("e" :> 76) @@ ("f" :> 77) @@ ("g" :> 79) @@
    ("a" :> 81) @@ ("b" :> 83)

Untitled == <<"U", "n", "t", "i", "t", "l", "e", "d">>

---------------------------------------------------------------------------
(* ABCParser.parseTempo                                                    *)

\* tempoString.match(/(\d+)\/(\d+)=(\d+)/): the match starting at 1-based
\* index p, as its three captured groups, or Null.  Each \d+ is greedy and is
\* followed by a non-digit, so giving back digits never helps.
TempoMatchAt(s, p) ==
    LET e1 == RunEndIn(s, p, Digits)
        e2 == RunEndIn(s, e1 + 2, Digits)
        e3 == RunEndIn(s, e2 + 2, Digits)
    IN  IF /\ e1 >= p
           /\ e1 + 1 <= Len(s) /\ s[e1 + 1] = "/"
           /\ e2 >= e1 + 2
           /\ e2 + 1 <= Len(s) /\ s[e2 + 1] = "="
           /\ e3 >= e2 + 2
        THEN [kind |-> "match", g1 |-> SubSeq(s, p, e1),
              g2 |-> SubSeq(s, e1 + 2, e2), g3 |-> SubSeq(s, e2 + 2, e3)]
        ELSE Null

\* the leftmost match of the pattern in s, or Null
TempoMatch(s) ==
    LET starts == {p \in 1..Len(s) : TempoMatchAt(s, p) # Null}
    IN  IF starts = {} THEN Null ELSE TempoMatchAt(s, SetMin(starts))

\* parseTempo reading the first captured group where the code reads match[3]
parseTempoFirstGroup(s) ==
    LET m == TempoMatch(s)
        num == ParseInt(s)
    IN  IF m # Null THEN ParseInt(m.g1).value
        ELSE IF num = NaN THEN 120 ELSE num.value

parseTempo(s) ==
    LET m == TempoMatch(s)
        num == ParseInt(s)
    IN  IF m # Null THEN ParseInt(m.g3).value
        ELSE IF num = NaN THEN 120 ELSE num.value

---------------------------------------------------------------------------
(* ABCParser.parseHeader                                                   *)

\* the header object made once and used again by the next call
HeaderCarriedOver ==
    IF header = Undefined
    THEN
        [title |-> Untitled, key |-> <<"C">>, meter |-> <<"4", "/", "4">>,
         tempo |-> 120, lineCount |-> 0, number |-> Undefined,
         defaultLength |-> Undefined]
    ELSE header

HeaderDefaults ==
    [title |-> Untitled, key |-> <<"C">>, meter |-> <<"4", "/", "4">>,
     tempo |-> 120, lineCount |-> 0, number |-> Undefined,
     defaultLength |-> Undefined]

\* the test of the branch "line === '' || V: || I:"
IsSkippable(line) ==
    \/ line = <<>>
    \/ StartsWith(line, <<"V", ":">>)
    \/ StartsWith(line, <<"I", ":">>)

\* the tests of the branches that set a field
IsFieldLine(line) ==
    \E t \in {"X", "T", "K", "M", "Q", "L"} : StartsWith(line, <<t, ":">>)

\* the if / else-if chain with the K: branch assigning header.meter
HeaderAfterLineKeyToMeter(h, line, idx) ==
    IF StartsWith(line, <<"X", ":">>)
        THEN [h EXCEPT !.number = ParseInt(Substring(line, 2))]
    ELSE IF StartsWith(line, <<"T", ":">>)
        THEN [h EXCEPT !.title = Substring(line, 2)]
    ELSE IF StartsWith(line, <<"K", ":">>)
        THEN [h EXCEPT !.meter = Substring(line, 2)]
    ELSE IF StartsWith(line, <<"M", ":">>)
        THEN [h EXCEPT !.meter = Substring(line, 2)]
    ELSE IF StartsWith(line, <<"Q", ":">>)
        THEN [h EXCEPT !.tempo = parseTempo(Substring(line, 2))]
    ELSE IF StartsWith(line, <<"L", ":">>)
        THEN [h EXCEPT !.defaultLength = Str(Substring(line, 2))]
    ELSE IF IsSkippable(line)
        THEN h
    ELSE [h EXCEPT !.lineCount = idx]

\* the header after the if / else-if chain has handled line number idx
HeaderAfterLine(h, line, idx) ==
    IF StartsWith(line, <<"X", ":">>)
        THEN [h EXCEPT !.number = ParseInt(Substring(line, 2))]
    ELSE IF StartsWith(line, <<"T", ":">>)
        THEN [h EXCEPT !.title = Substring(line, 2)]
    ELSE IF StartsWith(line, <<"K", ":">>)
        THEN [h EXCEPT !.key = Substring(line, 2)]
    ELSE IF StartsWith(line, <<"M", ":">>)
        THEN [h EXCEPT !.meter = Substring(line, 2)]
    ELSE IF StartsWith(line, <<"Q", ":">>)
        THEN [h EXCEPT !.tempo = parseTempo(Substring(line, 2))]
    ELSE IF StartsWith(line, <<"L", ":">>)
        THEN [h EXCEPT !.defaultLength = Str(Substring(line, 2))]
    ELSE IF IsSkippable(line)
        THEN h
    ELSE [h EXCEPT !.lineCount = idx]

---------------------------------------------------------------------------
(* ABCParser.parseBody                                                     *)

\* exec of the pattern without the g flag: the search starts at 0 whatever
\* lastIndex is, and lastIndex is left where it was
NotePatternExecNoGlobal(text, from) ==
    LET starts == {p \in 1..Len(text) : text[p] \in NoteLetters}
        p == SetMin(starts)
        e2 == RunEndNotIn(text, p + 1, OctaveMarks)
        e3 == RunEndIn(text, e2 + 1, OctaveMarks)
        e4 == RunEndIn(text, e3 + 1, Digits)
    IN  IF starts = {} THEN Null
        ELSE [kind |-> "match",
              index |-> p - 1,
              note |-> text[p],
              accidental |-> SubSeq(text, p + 1, e2),
              octave |-> SubSeq(text, e2 + 1, e3),
              duration |-> SubSeq(text, e3 + 1, e4),
              lastIndex |-> from]

\* notePattern.exec(bodyText) with notePattern.lastIndex = from (0-based),
\* notePattern = /([A-Ga-g])([^,']*)([,']*)(\d*)/g.  The match starts at the
\* first note letter at or after from; groups 2, 3 and 4 are greedy and each
\* may be empty, so each takes its longest run and nothing is given back.
NotePatternExec(text, from) ==
    LET starts == {p \in (from + 1)..Len(text) : text[p] \in NoteLetters}
        p == SetMin(starts)
        e2 == RunEndNotIn(text, p + 1, OctaveMarks)
        e3 == RunEndIn(text, e2 + 1, OctaveMarks)
        e4 == RunEndIn(text, e3 + 1, Digits)
    IN  IF starts = {} THEN Null
        ELSE [kind |-> "match",
              index |-> p - 1,
              note |-> text[p],
              accidental |-> SubSeq(text, p + 1, e2),
              octave |-> SubSeq(text, e2 + 1, e3),
              duration |-> SubSeq(text, e3 + 1, e4),
              lastIndex |-> e4]

\* the accidental with the natural tested first, so that a later sharp or
\* flat still moves the note
SemitoneOffsetNaturalFirst(accidental) ==
    LET s0 == 0
        s1 == IF Includes(accidental, "^") THEN s0 + 1 ELSE s0
    IN  IF Includes(accidental, "_") THEN s1 - 1 ELSE s1

\* "Procesar accidental"
SemitoneOffset(accidental) ==
    LET s1 == IF Includes(accidental, "^") THEN 1 ELSE 0
        s2 == IF Includes(accidental, "_") THEN s1 - 1 ELSE s1
    IN  IF Includes(accidental, "=") THEN 0 ELSE s2

\* the octave with split(...).length taken without the "- 1"
OctaveOffsetSplitLength(octave) ==
    LET o1 == IF Includes(octave, "'") THEN CountOf(octave, "'") + 1 ELSE 0
    IN  IF Includes(octave, ",") THEN o1 - (CountOf(octave, ",") + 1) ELSE o1

\* "Procesar octava"
OctaveOffset(octave) ==
    LET o1 == IF Includes(octave, "'") THEN CountOf(octave, "'") ELSE 0
    IN  IF Includes(octave, ",") THEN o1 - CountOf(octave, ",") ELSE o1

\* this.noteToMidi[note] || 60
BaseNote(note) ==
    IF note \in DOMAIN noteToMidi /\ noteToMidi[note] # 0
    THEN noteToMidi[note] ELSE 60

\* the MIDI number clamped to the range 0 .. 127
MidiNoteClamped(m) ==
    LET n == BaseNote(m.note) + SemitoneOffset(m.accidental)
             + (OctaveOffset(m.octave) * 12)
    IN  IF n < 0 THEN 0 ELSE IF n > 127 THEN 127 ELSE n

\* "Calcular nota MIDI"
MidiNote(m) ==
    BaseNote(m.note) + SemitoneOffset(m.accidental) + (OctaveOffset(m.octave) * 12)

\* "Calcular duración"
NoteDuration(duration) ==
    IF duration # <<>> THEN ParseFloat(duration) ELSE 1

\* the object pushed with the octave counted from the previous note's octave
NoteOfRunningOctave(m, curOctave) ==
    [note |-> ToUpperCase(m.note),
     midiNote |-> MidiNote(m),
     duration |-> NoteDuration(m.duration),
     accidental |-> m.accidental,
     octave |-> (IF notes = <<>> THEN curOctave ELSE notes[Len(notes)].octave)
                + OctaveOffset(m.octave)]

\* the object pushed on notes for the match m
NoteOf(m, curOctave) ==
    [note |-> ToUpperCase(m.note),
     midiNote |-> MidiNote(m),
     duration |-> NoteDuration(m.duration),
     accidental |-> m.accidental,
     octave |-> curOctave + OctaveOffset(m.octave)]

---------------------------------------------------------------------------
(* ABCParser.extractMetadata                                               *)

\* abcString.match(/%.*$/gm): one match per line that holds a '%', from the
\* first '%' of the line to its end ('.' stops at a line terminator)
RECURSIVE CommentsOf(_)
CommentsOf(ls) ==
    IF ls = <<>> THEN <<>>
    ELSE LET l == Head(ls)
             P == {k \in 1..Len(l) : l[k] = "%"}
         IN  (IF P = {} THEN <<>>
              ELSE <<Trim(Substring(SubSeq(l, SetMin(P), Len(l)), 1))>>)
             \o CommentsOf(Tail(ls))

\* the lines the multiline flag sees: split at \n, and at \r within them
RECURSIVE SplitAll(_, _)
SplitAll(ls, sep) ==
    IF ls = <<>> THEN <<>> ELSE Split(Head(ls), sep) \o SplitAll(Tail(ls), sep)

\* the metadata taken from the lines that are not header fields only
extractMetadataBodyLines(s) ==
    LET body == Join(SelectSeq(Split(s, "\n"),
                               LAMBDA l : ~IsFieldLine(Trim(l))), "\n")
    IN  [comments |-> CommentsOf(SplitAll(Split(body, "\n"), "\r")),
         barCount |-> CountOf(body, "|")]

\* extractMetadata, lines 142-154
extractMetadata(s) ==
    [comments |-> CommentsOf(SplitAll(Split(s, "\n"), "\r")),
     barCount |-> CountOf(s, "|")]

---------------------------------------------------------------------------
(* The inputs the model enumerates.                                        *)

\* every string over the alphabet A of at most n characters
Strings(A, n) == UNION {[1..k -> A] : k \in 0..n}

BodyAlphabet == {"C", "D", "e", "^", "_", "=", "'", ",", "2", "0", " "}
BodyStrings == Strings(BodyAlphabet, MaxBodyLen)

\* the header of the end-to-end test (src/unnamed/part_003, lines 82-85)
ScaleHeader ==
    <<"X", ":", "1", "\n", "T", ":", "T", "e", "s", "t", " ", "E", "s", "c", "a", "l",
    "a", "\n", "M", ":", "4", "/", "4", "\n", "K", ":", "C", "\n">>

\* its body (line 86), and the whole text
ScaleBody == <<"C", "D", "E", "F", "G", "A", "B", "c">>
ScaleABC == ScaleHeader \o ScaleBody

\* the README's example (src/unnamed/part_004, lines 86-93; the accented
\* letter of its title is written "i")
ReadmeABC ==
    <<"X", ":", "1", "\n", "T", ":", "M", "i", " ", "M", "e", "l", "o", "d", "i", "a",
    "\n", "C", ":", "C", "o", "m", "p", "o", "s", "i", "t", "o", "r", "\n", "M", ":",
    "4", "/", "4", "\n", "L", ":", "1", "/", "4", "\n", "K", ":", "C", "\n", "Q", ":",
    "1", "/", "4", "=", "1", "2", "0", "\n", "C", "D", "E", "F", " ", "|", " ", "G",
    "A", "B", "c", " ", "|", " ", "c", "B", "A", "G", " ", "|", " ", "F", "E", "D", "C",
    " ", "|", "]">>

HeaderPrefixes == {<<>>, <<"K", ":", "C", "\n">>, ScaleHeader}

\* texts named in the documentation and the tests, longer than MaxBodyLen
Examples ==
    {ScaleABC, ReadmeABC,
     <<"C", "2", "D", "2">>,
     <<"C", ",", ",", ",", ",", ",", ",">>,
     <<"b", "'", "'", "'", "'">>,
     <<"K", ":", "C", "\n", "C", "^", "'", "2", " ", "D", "'", ",", "'", "4">>}

ParseInputs == {h \o b : h \in HeaderPrefixes, b \in BodyStrings} \cup Examples

---------------------------------------------------------------------------
(* ABCParser.parse, step by step.                                          *)

\* parse, lines 40-41: trim and split, then enter parseHeader
Parse ==
    /\ pc = "parse"
    /\ lines' = Split(Trim(abcString), "\n")
    /\ header' = HeaderDefaults
    /\ i' = 0
    /\ pc' = "parseHeader"
    /\ UNCHANGED <<abcString, bodyText, lastIndex, match, notes, currentOctave,
                   currentAccidental, result, tempoString, tempoResult>>
    /\ UNCHANGED <<generatorVars, converterVars>>

\* parseHeader: one iteration of the for loop
ParseHeaderLoop ==
    /\ pc = "parseHeader"
    /\ i < Len(lines)
    /\ LET line == Trim(lines[i + 1])
       IN  /\ header' = HeaderAfterLine(header, line, i)
           /\ IF IsFieldLine(line) \/ IsSkippable(line)
              THEN i' = i + 1 /\ pc' = pc
              ELSE i' = i /\ pc' = "parseBody"
    /\ UNCHANGED <<abcString, lines, bodyText, lastIndex, match, notes,
                   currentOctave, currentAccidental, result, tempoString,
                   tempoResult>>
    /\ UNCHANGED <<generatorVars, converterVars>>

\* parseHeader: the loop condition fails, the header is returned
ParseHeaderEnd ==
    /\ pc = "parseHeader"
    /\ i >= Len(lines)
    /\ pc' = "parseBody"
    /\ UNCHANGED <<abcString, lines, i, header, bodyText, lastIndex, match, notes,
                   currentOctave, currentAccidental, result, tempoString,
                   tempoResult>>
    /\ UNCHANGED <<generatorVars, converterVars>>

\* parse line 42 and parseBody lines 96-104: slice, join, initialise
ParseBody ==
    /\ pc = "parseBody"
    /\ bodyText' = Join(Slice(lines, header.lineCount), " ")
    /\ notes' = <<>>
    /\ currentOctave' = 4
    /\ currentAccidental' = 0
    /\ lastIndex' = 0
    /\ match' = Null
    /\ pc' = "noteLoop"
    /\ UNCHANGED <<abcString, lines, i, header, result, tempoString, tempoResult>>
    /\ UNCHANGED <<generatorVars, converterVars>>

\* parseBody: one iteration of the while loop
NoteLoop ==
    /\ pc = "noteLoop"
    /\ LET m == NotePatternExec(bodyText, lastIndex)
       IN  /\ m # Null
           /\ match' = m
           /\ lastIndex' = m.lastIndex
           /\ notes' = Append(notes, NoteOf(m, currentOctave))
    /\ UNCHANGED <<abcString, pc, lines, i, header, bodyText, currentOctave,
                   currentAccidental, result, tempoString, tempoResult>>
    /\ UNCHANGED <<generatorVars, converterVars>>

\* parseBody: exec returns null (and resets lastIndex), notes is returned
NoteLoopEnd ==
    /\ pc = "noteLoop"
    /\ NotePatternExec(bodyText, lastIndex) = Null
    /\ match' = Null
    /\ lastIndex' = 0
    /\ pc' = "return"
    /\ UNCHANGED <<abcString, lines, i, header, bodyText, notes, currentOctave,
                   currentAccidental, result, tempoString, tempoResult>>
    /\ UNCHANGED <<generatorVars, converterVars>>

\* parse, lines 44-48
ParseReturn ==
    /\ pc = "return"
    /\ result' = [header |-> header, body |-> notes,
                  metadata |-> extractMetadata(abcString)]
    /\ pc' = "done"
    /\ UNCHANGED <<abcString, lines, i, header, bodyText, lastIndex, match, notes,
                   currentOctave, currentAccidental, tempoString, tempoResult>>
    /\ UNCHANGED <<generatorVars, converterVars>>

\* no call on the generator has been made
GeneratorIdle ==
    /\ midiNote = 0
    /\ pitch = Undefined
    /\ parsedMusic = Undefined
    /\ instruments = <<>>
    /\ track = <<>>
    /\ effects = Undefined
    /\ midi = Undefined
    /\ validation = Undefined
    /\ metadata = Undefined

\* no call on the converter has been made
ConverterIdle ==
    /\ arg = Undefined
    /\ options = Undefined
    /\ conversion = Undefined
    /\ conversionHistory = <<>>
    /\ stats = Undefined
    /\ caller = "none"
    /\ exception = Undefined
    /\ calls = 0
    /\ returned = <<>>

ParseIdle ==
    /\ pc = "parse"
    /\ lines = <<>>
    /\ i = 0
    /\ header = Undefined
    /\ bodyText = <<>>
    /\ lastIndex = 0
    /\ match = Null
    /\ notes = <<>>
    /\ currentOctave = 4
    /\ currentAccidental = 0
    /\ result = Undefined
    /\ tempoString = <<>>
    /\ tempoResult = Undefined
    /\ GeneratorIdle
    /\ ConverterIdle

Init ==
    /\ abcString \in ParseInputs
    /\ ParseIdle

Next ==
    \/ Parse
    \/ ParseHeaderLoop
    \/ ParseHeaderEnd
    \/ ParseBody
    \/ NoteLoop
    \/ NoteLoopEnd
    \/ ParseReturn

Spec == Init /\ [][Next]_vars

\* the lines of the texts extractMetadata is checked on: header and body
\* lines with and without comments and bar lines, one with a bare \r
MetadataLineChoices ==
    {<<"K", ":", "C", " ", "%", "x">>,
     <<"T", ":", "a", "|">>,
     <<"V", ":", "1">>,
     <<"C", "|", "D", " ", "%", " ", " ", "y", " ", "z", " ">>,
     <<"C", "%", "a", "%", "b">>,
     <<"%">>,
     <<"|", "|", " ", "|">>,
     <<"D", "%", "a", "\r", "%", "|", "\r">>,
     <<"C", "D">>,
     <<>>}

MetadataInputs ==
    {Join(ls, "\n") :
        ls \in UNION {[1..k -> MetadataLineChoices] : k \in 0..MaxMetadataLines}}

InitMetadata ==
    /\ abcString \in MetadataInputs
    /\ ParseIdle

SpecMetadata == InitMetadata /\ [][Next]_vars

\* the texts the termination of parse is checked on: every body over a note
\* letter, an octave marker and a digit, behind each header block
TerminatesAlphabet == {"C", "'", "2"}

\* no header, and a header with a skipped V: line
TerminatesHeaders == {<<>>, <<"V", ":", "1", "\n", "K", ":", "C", "\n">>}

TerminatesInputs ==
    {h \o b : h \in TerminatesHeaders, b \in Strings(TerminatesAlphabet, MaxBodyLen)}

InitTerminates ==
    /\ abcString \in TerminatesInputs
    /\ ParseIdle

\* parse is synchronous code: once called it runs every statement it reaches
SpecTerminates == InitTerminates /\ [][Next]_vars /\ WF_vars(Next)

---------------------------------------------------------------------------
(* parseHeader on enumerated header blocks.                                *)

HeaderLineChoices ==
    {<<"X", ":", "1">>,
     <<"T", ":", "H", "i">>,
     <<"K", ":", "G">>,
     <<" ", "K", ":", "D", " ">>,
     <<"M", ":", "3", "/", "4">>,
     <<"Q", ":", "9", "0">>,
     <<"Q", ":", "1", "/", "4", "=", "1", "0", "0">>,
     <<"Q", ":", "x">>,
     <<"L", ":", "1", "/", "8">>,
     <<>>,
     <<"V", ":", "1">>,
     <<"I", ":", "x">>,
     <<"C", ":", "B", "o">>}

BodyLineChoices == {<<>>, <<"C", "D">>, <<"G", "'", "2">>}

HeaderBlocks == UNION {[1..k -> HeaderLineChoices] : k \in 0..MaxHeaderLines}

HeaderInputs ==
    {Join(hs \o <<b>>, "\n") : hs \in HeaderBlocks, b \in BodyLineChoices}
    \cup {ReadmeABC}

InitHeader ==
    /\ abcString \in HeaderInputs
    /\ ParseIdle

SpecHeader == InitHeader /\ [][Next]_vars

---------------------------------------------------------------------------
(* parseTempo called on enumerated tempo fields.                           *)

TempoAlphabet == {"0", "1", "9", "/", "=", "x"}

\* the fields the specification and the claims name
TempoExamples ==
    {<<"1", "/", "4", "=", "1", "2", "0">>,
     <<"9", "0">>,
     <<"a", "b", "c">>,
     <<"1", "/", "4">>,
     <<"1", "2", "0", "x">>}

TempoInputs == Strings(TempoAlphabet, MaxTempoLen) \cup TempoExamples

ParseTempoCall ==
    /\ pc = "parseTempo"
    /\ tempoResult' = parseTempo(tempoString)
    /\ pc' = "done"
    /\ UNCHANGED <<abcString, lines, i, header, bodyText, lastIndex, match, notes,
                   currentOctave, currentAccidental, result, tempoString>>
    /\ UNCHANGED <<generatorVars, converterVars>>

InitTempo ==
    /\ tempoString \in TempoInputs
    /\ tempoResult = Undefined
    /\ abcString = <<>>
    /\ pc = "parseTempo"
    /\ lines = <<>>
    /\ i = 0
    /\ header = Undefined
    /\ bodyText = <<>>
    /\ lastIndex = 0
    /\ match = Null
    /\ notes = <<>>
    /\ currentOctave = 4
    /\ currentAccidental = 0
    /\ result = Undefined
    /\ GeneratorIdle
    /\ ConverterIdle

NextTempo == ParseTempoCall

SpecTempo == InitTempo /\ [][NextTempo]_vars

---------------------------------------------------------------------------
(* The MIDI generator (src/unnamed/part_000, class MidiGenerator).         *)
(*                                                                         *)
(* The writer library is outside the repository: a track is modelled as    *)
(* the sequence of the events handed to it, an event as a record of the    *)
(* options it was constructed with.  Pitch names and tick names are TLA+   *)
(* strings; a number is converted to text as the engine does for integers. *)

\* the margin by which enumerated note numbers leave the range 0..127
PitchMargin == 12

\* JavaScript's %: the remainder takes the sign of the dividend
Remainder(a, b) == IF a >= 0 THEN a % b ELSE 0 - ((0 - a) % b)

\* midiNoteToPitch, line 94
noteNames ==
    <<"C", "C#", "D", "D#", "E", "F", "F#", "G", "G#", "A", "A#", "B">>

\* an array read outside its indices gives undefined, which + turns to text
ArrayGet(array, index) ==
    IF index \in 0..(Len(array) - 1) THEN array[index + 1] ELSE "undefined"

\* midiNoteToPitch with the octave taken as floor(midiNote / 12)
midiNoteToPitchNoOffset(n) ==
    ArrayGet(noteNames, Remainder(n, 12)) \o ToString(n \div 12)

\* midiNoteToPitch, lines 93-98
midiNoteToPitch(n) ==
    LET octave == (n \div 12) - 1
        noteIndex == Remainder(n, 12)
    IN  ArrayGet(noteNames, noteIndex) \o ToString(octave)

\* the parser is not in use
ParserAtRest ==
    /\ abcString = <<>>
    /\ lines = <<>>
    /\ i = 0
    /\ header = Undefined
    /\ bodyText = <<>>
    /\ lastIndex = 0
    /\ match = Null
    /\ notes = <<>>
    /\ currentOctave = 4
    /\ currentAccidental = 0
    /\ result = Undefined
    /\ tempoString = <<>>
    /\ tempoResult = Undefined

parserVars == <<abcString, lines, i, header, bodyText, lastIndex, match, notes,
                currentOctave, currentAccidental, result, tempoString, tempoResult>>

\* the note numbers midiNoteToPitch is called with
MidiNotes == (0 - PitchMargin)..(127 + PitchMargin)

MidiNoteToPitchCall ==
    /\ pc = "midiNoteToPitch"
    /\ pitch' = midiNoteToPitch(midiNote)
    /\ pc' = "done"
    /\ UNCHANGED <<parserVars, converterVars, midiNote, parsedMusic, instruments,
                   track, effects, midi, validation,
                   metadata>>

InitPitch ==
    /\ pc = "midiNoteToPitch"
    /\ ParserAtRest
    /\ ConverterIdle
    /\ midiNote \in MidiNotes
    /\ pitch = Undefined
    /\ parsedMusic = Undefined
    /\ instruments = <<>>
    /\ track = <<>>
    /\ effects = Undefined
    /\ midi = Undefined
    /\ validation = Undefined
    /\ metadata = Undefined

NextPitch == MidiNoteToPitchCall

SpecPitch == InitPitch /\ [][NextPitch]_vars

---------------------------------------------------------------------------
(* MidiGenerator: numbers that are not integers, property reads, events.   *)

\* most notes in an enumerated body
MaxNotes == 2
\* most names in an enumerated instrument list
MaxInstruments == 2

\* a number that is not an integer, as numerator over denominator (2 or 4)
Frac(n, d) == [num |-> n, den |-> d]

Fractions == {Frac(1, 4), Frac(1, 2), Frac(3, 2), Frac(0 - 1, 2)}

\* integers are TLA+ integers; the text of a value tells the two kinds apart
IsFraction(x) == ToString(x) \in {ToString(f) : f \in Fractions}

\* Number::toString of a fraction with at most two decimals
FractionText(f) ==
    LET a == IF f.num < 0 THEN 0 - f.num ELSE f.num
        hundredths == ((a % f.den) * 100) \div f.den
        decimals == IF hundredths % 10 = 0 THEN ToString(hundredths \div 10)
                    ELSE (IF hundredths < 10 THEN "0" ELSE "") \o ToString(hundredths)
    IN  (IF f.num < 0 THEN "-" ELSE "") \o ToString(a \div f.den) \o "." \o decimals

\* the property key a number is converted to
NumberToString(x) == IF IsFraction(x) THEN FractionText(x) ELSE ToString(x)

\* x <= 0 on numbers
AtMostZero(x) == IF IsFraction(x) THEN x.num <= 0 ELSE x <= 0

\* the values JavaScript takes as false in a condition
Falsy(x) ==
    ToString(x) \in {ToString(Undefined), ToString(Null), ToString(NaN),
                     ToString(0), ToString(FALSE), ToString(<<>>)}

\* a || b
Or(a, b) == IF Falsy(a) THEN b ELSE a

\* the members every object inherits from Object.prototype (two of them)
InheritedKeys == {"constructor", "toString"}

\* obj[key]: an own property, else an inherited member, else undefined
ObjectGet(obj, key) ==
    IF key \in DOMAIN obj THEN obj[key]
    ELSE IF key \in InheritedKeys THEN [kind |-> "function", name |-> key]
    ELSE Undefined

\* constructor, lines 14-21: the keys of an object literal are strings
durationToTicks ==
    ("0.25" :> "T32") @@ ("0.5" :> "T16") @@ ("1" :> "T8")
    @@ ("2" :> "T4") @@ ("4" :> "T2") @@ ("8" :> "T1")

\* constructor, lines 24-30 (named instrumentTable: instruments is the
\* argument of generateMultiTrack)
instrumentTable ==
    ("piano" :> 0) @@ ("violin" :> 40) @@ ("flute" :> 73)
    @@ ("guitar" :> 24) @@ ("bass" :> 32)

\* the events of the writer library, as the options they are built from
TempoEvent(bpm) == [type |-> "tempo", bpm |-> bpm]
ProgramChangeEvent(instrument) == [type |-> "programChange", instrument |-> instrument]
NoteEvent(p, duration, velocity, channel) ==
    [type |-> "note", pitch |-> p, duration |-> duration,
     velocity |-> velocity, channel |-> channel]
ControllerChangeEvent(number, value) ==
    [type |-> "controller", controllerNumber |-> number, controllerValue |-> value]
TextEvent(text) == [type |-> "text", text |-> text]

\* convertNotesToEvents with a quarter note, 'T4', as the default
convertNotesToEventsDefaultT4(ns) ==
    [k \in 1..Len(ns) |->
        NoteEvent(<<midiNoteToPitch(ns[k].midiNote)>>,
                  Or(ObjectGet(durationToTicks, NumberToString(ns[k].duration)), "T4"),
                  100, 0)]

\* convertNotesToEvents, lines 68-88 (currentTime is a local that is only
\* written)
convertNotesToEvents(ns) ==
    [k \in 1..Len(ns) |->
        NoteEvent(<<midiNoteToPitch(ns[k].midiNote)>>,
                  Or(ObjectGet(durationToTicks, NumberToString(ns[k].duration)), "T8"),
                  100, 0)]

\* generate with the program change added before the tempo
generateProgramFirst(pm) ==
    <<<<ProgramChangeEvent(instrumentTable["piano"]),
        TempoEvent(Or(pm.header.tempo, 120))>>
      \o convertNotesToEvents(pm.body)>>

\* generate, lines 38-63: the tracks handed to the writer
generate(pm) ==
    <<<<TempoEvent(Or(pm.header.tempo, 120)),
        ProgramChangeEvent(instrumentTable["piano"])>>
      \o convertNotesToEvents(pm.body)>>

\* generateMultiTrack, lines 103-125
generateMultiTrack(pm, names) ==
    [t \in 1..Len(names) |->
        <<ProgramChangeEvent(Or(ObjectGet(instrumentTable, names[t]), 0))>>
        \o convertNotesToEvents(pm.body)]

\* addEffects with the two controllers appended in the other order
addEffectsVibratoFirst(t, fx) ==
    t \o (IF Falsy(fx.vibrato) THEN <<>> ELSE <<ControllerChangeEvent(1, 64)>>)
      \o (IF Falsy(fx.sustain) THEN <<>> ELSE <<ControllerChangeEvent(64, 127)>>)

\* addEffects, lines 130-144: the events of the track afterwards
addEffects(t, fx) ==
    t \o (IF Falsy(fx.sustain) THEN <<>> ELSE <<ControllerChangeEvent(64, 127)>>)
      \o (IF Falsy(fx.vibrato) THEN <<>> ELSE <<ControllerChangeEvent(1, 64)>>)

\* generateWithMetadata with the composer's text event added first
generateWithMetadataComposerFirst(pm, md) ==
    <<(IF Falsy(md.composer) THEN <<>> ELSE <<TextEvent(md.composer)>>)
      \o (IF Falsy(md.title) THEN <<>> ELSE <<TextEvent(md.title)>>)
      \o <<TempoEvent(Or(pm.header.tempo, 120)),
           ProgramChangeEvent(instrumentTable["piano"])>>
      \o convertNotesToEvents(pm.body)>>

\* generateWithMetadata, lines 149-178: the tracks handed to the writer
generateWithMetadata(pm, md) ==
    <<(IF Falsy(md.title) THEN <<>> ELSE <<TextEvent(md.title)>>)
      \o (IF Falsy(md.composer) THEN <<>> ELSE <<TextEvent(md.composer)>>)
      \o <<TempoEvent(Or(pm.header.tempo, 120)),
           ProgramChangeEvent(instrumentTable["piano"])>>
      \o convertNotesToEvents(pm.body)>>

\* validateMidiNotes, lines 186-193: the messages for the note at index k
NoteErrors(ns, k) ==
    (IF ns[k].midiNote < 0 \/ ns[k].midiNote > 127
     THEN <<[nota |-> k, text |-> "MIDI note fuera de rango (0-127)",
             value |-> ns[k].midiNote]>>
     ELSE <<>>)
    \o (IF AtMostZero(ns[k].duration)
        THEN <<[nota |-> k, text |-> "Duracion invalida", value |-> ns[k].duration]>>
        ELSE <<>>)

RECURSIVE ErrorsUpTo(_, _)
ErrorsUpTo(ns, n) ==
    IF n = 0 THEN <<>> ELSE ErrorsUpTo(ns, n - 1) \o NoteErrors(ns, n)

\* validateMidiNotes numbering the notes from 0
validateMidiNotesFromZero(ns) ==
    LET errors == [k \in 1..Len(ErrorsUpTo(ns, Len(ns))) |->
                      [ErrorsUpTo(ns, Len(ns))[k] EXCEPT !.nota = @ - 1]]
    IN  [isValid |-> Len(errors) = 0, errors |-> errors]

\* validateMidiNotes, lines 183-200
validateMidiNotes(ns) ==
    LET errors == ErrorsUpTo(ns, Len(ns))
    IN  [isValid |-> Len(errors) = 0, errors |-> errors]

---------------------------------------------------------------------------
(* Calls on the generator with enumerated notes, names and effects.        *)

\* the notes of the enumerated bodies: every key of durationToTicks, other
\* durations, and note numbers inside and outside 0..127
NoteChoices ==
    <<[midiNote |-> 60, duration |-> Frac(1, 4)],
      [midiNote |-> 69, duration |-> Frac(1, 2)],
      [midiNote |-> 0, duration |-> 1],
      [midiNote |-> 127, duration |-> 2],
      [midiNote |-> 62, duration |-> 4],
      [midiNote |-> 64, duration |-> 8],
      [midiNote |-> 60, duration |-> 3],
      [midiNote |-> 60, duration |-> 0],
      [midiNote |-> 0 - 1, duration |-> Frac(3, 2)],
      [midiNote |-> 128, duration |-> Frac(0 - 1, 2)]>>

\* header.tempo: absent, 0, or a number of beats per minute
TempoChoices == <<Undefined, 0, 90>>

\* a property of effects: absent, false, true, or another truthy value
FlagChoices == <<Undefined, FALSE, TRUE, 1>>

\* names in the instrument table, a name unknown to it, and a name every
\* object inherits a member for
InstrumentNames == {"piano", "violin", "bass", "organ", "constructor"}

InitGenerator ==
    /\ pc = "generator"
    /\ ParserAtRest
    /\ ConverterIdle
    /\ \E t \in DOMAIN TempoChoices, n \in 0..MaxNotes :
          \E c \in [1..n -> DOMAIN NoteChoices] :
             parsedMusic = [header |-> [tempo |-> TempoChoices[t]],
                            body |-> [k \in 1..n |-> NoteChoices[c[k]]]]
    /\ midiNote = 0
    /\ pitch = Undefined
    /\ instruments = <<>>
    /\ track = <<>>
    /\ effects = Undefined
    /\ midi = Undefined
    /\ validation = Undefined
    /\ metadata = Undefined

GenerateCall ==
    /\ pc = "generator"
    /\ midi' = generate(parsedMusic)
    /\ pc' = "generate"
    /\ UNCHANGED <<parserVars, converterVars, midiNote, pitch, parsedMusic,
                   instruments, track, effects, validation,
                   metadata>>

ValidateMidiNotesCall ==
    /\ pc = "generator"
    /\ validation' = validateMidiNotes(parsedMusic.body)
    /\ pc' = "validateMidiNotes"
    /\ UNCHANGED <<parserVars, converterVars, midiNote, pitch, parsedMusic,
                   instruments, track, effects, midi,
                   metadata>>

GenerateMultiTrackCall ==
    /\ pc = "generator"
    /\ \E n \in 0..MaxInstruments : \E names \in [1..n -> InstrumentNames] :
          /\ instruments' = names
          /\ midi' = generateMultiTrack(parsedMusic, names)
    /\ pc' = "generateMultiTrack"
    /\ UNCHANGED <<parserVars, converterVars, midiNote, pitch, parsedMusic,
                   track, effects, validation,
                   metadata>>

\* the events of the notes, added to a new track
ConvertNotesToEventsCall ==
    /\ pc = "generator"
    /\ track' = convertNotesToEvents(parsedMusic.body)
    /\ pc' = "convertNotesToEvents"
    /\ UNCHANGED <<parserVars, converterVars, midiNote, pitch, parsedMusic,
                   instruments, effects, midi, validation,
                   metadata>>

\* addEffects on that track
AddEffectsCall ==
    /\ pc = "convertNotesToEvents"
    /\ \E s \in DOMAIN FlagChoices, v \in DOMAIN FlagChoices :
          /\ effects' = [sustain |-> FlagChoices[s], vibrato |-> FlagChoices[v]]
          /\ track' = addEffects(track, effects')
    /\ pc' = "addEffects"
    /\ UNCHANGED <<parserVars, converterVars, midiNote, pitch, parsedMusic,
                   instruments, midi, validation,
                   metadata>>

\* metadata.title and metadata.composer: absent, the empty string, a text
TextChoices == <<Undefined, <<>>, <<"V", "a", "l", "s">>, <<"B", "o">>>>

GenerateWithMetadataCall ==
    /\ pc = "generator"
    /\ \E t \in {1, 2, 3}, c \in {1, 2, 4} :
          /\ metadata' = [title |-> TextChoices[t], composer |-> TextChoices[c]]
          /\ midi' = generateWithMetadata(parsedMusic, metadata')
    /\ pc' = "generateWithMetadata"
    /\ UNCHANGED <<parserVars, converterVars, midiNote, pitch, parsedMusic,
                   instruments, track, effects, validation>>

NextGenerator ==
    \/ GenerateCall
    \/ ValidateMidiNotesCall
    \/ GenerateMultiTrackCall
    \/ ConvertNotesToEventsCall
    \/ AddEffectsCall
    \/ GenerateWithMetadataCall

SpecGenerator == InitGenerator /\ [][NextGenerator]_vars

---------------------------------------------------------------------------
(* ABCParser.validate (src/src/abcParser.js, lines 174-226).               *)

\* most enumerated lines in a text given to validate
MaxValidateLines == 3

\* String.prototype.includes for a text of any length
IncludesText(s, t) ==
    \E k \in 0..(Len(s) - Len(t)) : SubSeq(s, k + 1, k + Len(t)) = t

\* Array.prototype.join(sep) for a separator of any length
RECURSIVE JoinBy(_, _)
JoinBy(ls, sep) ==
    IF ls = <<>> THEN <<>>
    ELSE IF Len(ls) = 1 THEN ls[1]
    ELSE ls[1] \o sep \o JoinBy(Tail(ls), sep)

\* [...new Set(array)]: the first occurrence of each element, in order
Unique(cs) ==
    LET first == {k \in 1..Len(cs) : \A j \in 1..(k - 1) : cs[j] # cs[k]}
        nth(j) == CHOOSE p \in first : Cardinality({q \in first : q < p}) = j - 1
    IN  [j \in 1..Cardinality(first) |-> cs[nth(j)]]

\* an entry of errors: the fixed text, and the list a template text ends with
Message(text, list) == [text |-> text, list |-> list]

\* the characters the class [A-Ga-g\s,.'^_=\d|\[\](){}] matches
AllowedChars ==
    NoteLetters \cup WhiteSpace \cup Digits
    \cup {",", ".", "'", "^", "_", "=", "|", "[", "]", "(", ")", "{", "}"}

\* the prefixes the filter of lines 203-210 tests
FilteredPrefixes ==
    {<<"X", ":">>, <<"T", ":">>, <<"C", ":">>, <<"M", ":">>,
     <<"L", ":">>, <<"K", ":">>, <<"Q", ":">>}

KeepLine(line) ==
    /\ \A p \in FilteredPrefixes : ~StartsWith(line, p)
    /\ Trim(line) # <<>>

\* noteSection made of every line that is not blank, header lines included
noteSectionAllLines(s) ==
    Join(SelectSeq(Split(s, "\n"), LAMBDA line : Trim(line) # <<>>), " ")

\* validate, lines 201-211: noteSection
noteSection(s) == Join(SelectSeq(Split(s, "\n"), KeepLine), " ")

\* String.prototype.match with the global class of line 214: every
\* character of the text outside the class, in order
InvalidChars(text) == SelectSeq(text, LAMBDA c : c \notin AllowedChars)

\* validate, lines 174-226
validate(s) ==
    IF s = <<>> \/ Trim(s) = <<>>
    THEN [isValid |-> FALSE,
          errors |-> <<Message("La notación ABC no puede estar vacía", <<>>)>>]
    ELSE
      LET hasNotes == \E k \in 1..Len(s) : s[k] \in NoteLetters
          invalidChars == InvalidChars(noteSection(s))
          uniqueInvalidChars == Unique(invalidChars)
          errors ==
              (IF ~hasNotes
               THEN <<Message("No se encontraron notas válidas (A-G, a-g)", <<>>)>>
               ELSE <<>>)
              \o (IF ~IncludesText(s, <<"K", ":">>)
                  THEN <<Message("Falta la clave (K:)", <<>>)>> ELSE <<>>)
              \o (IF ~IncludesText(s, <<"M", ":">>)
                  THEN <<Message("Falta el compás (M:)", <<>>)>> ELSE <<>>)
              \o (IF noteSection(s) # <<>> /\ invalidChars # <<>>
                  THEN <<Message("Caracteres inválidos en las notas: ",
                                 JoinBy([k \in 1..Len(uniqueInvalidChars) |->
                                            <<uniqueInvalidChars[k]>>],
                                        <<",", " ">>))>>
                  ELSE <<>>)
      IN  [isValid |-> Len(errors) = 0, errors |-> errors]

\* the lines of the enumerated texts
ValidateLineChoices ==
    {<<"K", ":", "C">>,
     <<"M", ":", "4", "/", "4">>,
     <<"T", ":", "H", "i", "!">>,
     <<"C", "D", "E">>,
     <<"C", "2", " ", "|", " ", "d", "'">>,
     <<"x", "!", "x">>,
     <<"h", "o", "l", "a">>,
     <<"1", "2", " ", "|">>,
     <<"z", "K", ":", "M", ":">>,
     <<"V", ":", "1">>,
     <<" ", "K", ":", "D">>,
     <<" ">>,
     <<>>}

\* the text the end-to-end test types to get an error (part_003, line 107)
InvalidABC ==
    <<"A", "B", "C", " ", "i", "n", "v", "á", "l", "i", "d", "o", " ",
      "s", "i", "n", " ", "e", "s", "t", "r", "u", "c", "t", "u", "r", "a">>

ValidateInputs ==
    {Join(ls, "\n") :
        ls \in UNION {[1..k -> ValidateLineChoices] : k \in 0..MaxValidateLines}}
    \cup {InvalidABC, ScaleABC, ReadmeABC}

ValidateCall ==
    /\ pc = "validate"
    /\ validation' = validate(abcString)
    /\ pc' = "validated"
    /\ UNCHANGED <<abcString, lines, i, header, bodyText, lastIndex, match, notes,
                   currentOctave, currentAccidental, result, tempoString,
                   tempoResult, converterVars, midiNote, pitch, parsedMusic,
                   instruments, track, effects, midi,
                   metadata>>

InitValidate ==
    /\ pc = "validate"
    /\ abcString \in ValidateInputs
    /\ lines = <<>>
    /\ i = 0
    /\ header = Undefined
    /\ bodyText = <<>>
    /\ lastIndex = 0
    /\ match = Null
    /\ notes = <<>>
    /\ currentOctave = 4
    /\ currentAccidental = 0
    /\ result = Undefined
    /\ tempoString = <<>>
    /\ tempoResult = Undefined
    /\ GeneratorIdle
    /\ ConverterIdle

NextValidate == ValidateCall

SpecValidate == InitValidate /\ [][NextValidate]_vars

---------------------------------------------------------------------------
(* ABCToMidiConverter.convert (src/unnamed/part_001).                      *)
(*                                                                         *)
(* The argument of convert is any JavaScript value: it is carried as a     *)
(* record that names its type.  The timestamp and the measured duration of *)
(* a result depend on the clock and are left out of the result objects.    *)

\* validateInput, lines 133-152
validateInput(a) ==
    IF a.kind # "string" \/ a.value = <<>>
    THEN [isValid |-> FALSE,
          errors |-> <<Message("La entrada debe ser una cadena de texto válida", <<>>)>>]
    ELSE IF Trim(a.value) = <<>>
    THEN [isValid |-> FALSE,
          errors |-> <<Message("La entrada no puede estar vacía", <<>>)>>]
    ELSE validate(a.value)

\* validateMusicStructure without the validation of the notes
validateMusicStructureNoNotes(pm) ==
    LET errors == IF Len(pm.body) = 0
                  THEN <<Message("No se encontraron notas en la música", <<>>)>>
                  ELSE <<>>
    IN  [isValid |-> Len(errors) = 0, errors |-> errors]

\* validateMusicStructure, lines 157-186 (header and body are always the
\* object and the array parse returns)
validateMusicStructure(pm) ==
    LET errors ==
            (IF Len(pm.body) = 0
             THEN <<Message("No se encontraron notas en la música", <<>>)>>
             ELSE <<>>)
            \o (IF Len(pm.body) > 0 /\ ~validateMidiNotes(pm.body).isValid
                THEN validateMidiNotes(pm.body).errors
                ELSE <<>>)
    IN  [isValid |-> Len(errors) = 0, errors |-> errors]

\* convert: the object returned when a step fails
Failure(error, details) == [success |-> FALSE, error |-> error, details |-> details]

\* convert, lines 65-77: conversionResult
Success(pm, midiBuffer) ==
    [success |-> TRUE,
     midiBuffer |-> midiBuffer,
     metadata |-> [title |-> pm.header.title, key |-> pm.header.key,
                   tempo |-> pm.header.tempo, meter |-> pm.header.meter,
                   noteCount |-> Len(pm.body)]]

\* the positions of a parse call that runs
ParsePositions == {"parse", "parseHeader", "parseBody", "noteLoop", "return", "done"}

\* step 1 with the failed conversion pushed on the history
ConvertValidateInputRecorded ==
    /\ pc = "validateInput"
    /\ validation' = validateInput(arg)
    /\ IF validation'.isValid
       THEN /\ abcString' = arg.value
            /\ pc' = "parse"
            /\ UNCHANGED <<conversion, conversionHistory, caller>>
       ELSE /\ conversion' = Failure("Entrada inválida", validation'.errors)
            /\ conversionHistory' = Append(conversionHistory, conversion')
            /\ pc' = "idle"
            /\ caller' = "none"
            /\ UNCHANGED abcString
    /\ UNCHANGED <<lines, i, header, bodyText, lastIndex, match, notes,
                   currentOctave, currentAccidental, result, tempoString,
                   tempoResult, midiNote, pitch, parsedMusic, instruments, track,
                   effects, midi, arg, options, stats, exception,
                   calls, returned,
                   metadata>>

\* convert, lines 32-40: step 1, and the call of the parser when it passes
ConvertValidateInput ==
    /\ pc = "validateInput"
    /\ validation' = validateInput(arg)
    /\ IF validation'.isValid
       THEN /\ abcString' = arg.value
            /\ pc' = "parse"
            /\ UNCHANGED <<conversion, caller>>
       ELSE /\ conversion' = Failure("Entrada inválida", validation'.errors)
            /\ pc' = "idle"
            /\ caller' = "none"
            /\ UNCHANGED abcString
    /\ UNCHANGED <<lines, i, header, bodyText, lastIndex, match, notes,
                   currentOctave, currentAccidental, result, tempoString,
                   tempoResult, midiNote, pitch, parsedMusic, instruments, track,
                   effects, midi, arg, options, stats, conversionHistory, exception,
                   calls, returned,
                   metadata>>

\* convert, lines 43-54: parse has returned; step 3
ConvertValidateStructure ==
    /\ pc = "done"
    /\ caller = "convert"
    /\ returned' = Append(returned, [text |-> abcString, result |-> result])
    /\ parsedMusic' = result
    /\ validation' = validateMusicStructure(result)
    /\ IF validation'.isValid
       THEN /\ pc' = "generate"
            /\ UNCHANGED <<conversion, caller>>
       ELSE /\ conversion' = Failure("Estructura musical inválida", validation'.errors)
            /\ pc' = "idle"
            /\ caller' = "none"
    /\ UNCHANGED <<parserVars, midiNote, pitch, instruments, track, effects, midi,
                   arg, options, stats, conversionHistory, exception, calls,
                   metadata>>

\* convert, lines 57-80: steps 4 to 6; reading options.optimize throws a
\* TypeError when options is null
ConvertGenerate ==
    /\ pc = "generate"
    /\ midi' = generate(parsedMusic)
    /\ IF options = Null
       THEN /\ exception' = "Cannot read properties of null (reading 'optimize')"
            /\ pc' = "catch"
            /\ UNCHANGED <<conversion, conversionHistory, caller>>
       ELSE /\ conversion' = Success(parsedMusic, midi')
            /\ conversionHistory' = Append(conversionHistory, conversion')
            /\ pc' = "idle"
            /\ caller' = "none"
            /\ UNCHANGED exception
    /\ UNCHANGED <<parserVars, midiNote, pitch, parsedMusic, instruments, track,
                   effects, validation, arg, options, stats, calls, returned,
                   metadata>>

\* convert without its catch clause: the exception leaves the call
ConvertNoCatch ==
    /\ pc = "catch"
    /\ pc' = "thrown"
    /\ caller' = "none"
    /\ UNCHANGED <<parserVars, generatorVars, arg, options, stats, conversion,
                   conversionHistory, exception, calls, returned>>

\* convert, lines 82-89: the catch clause
ConvertCatch ==
    /\ pc = "catch"
    /\ conversion' = Failure("Error durante la conversión", exception)
    /\ pc' = "idle"
    /\ caller' = "none"
    /\ UNCHANGED <<parserVars, generatorVars, arg, options, stats, conversionHistory,
                   exception, calls, returned>>

\* the characters of the enumerated bodies given to convert
ConvertBodyAlphabet == {"C", "e", "^", "'", ",", "2", "0", " "}

\* a header that passes validate
ValidHeader == <<"K", ":", "C", "\n", "M", ":", "4", "/", "4", "\n">>

\* the texts given to convert
ConvertTexts ==
    {ValidHeader \o b : b \in Strings(ConvertBodyAlphabet, MaxBodyLen)}
    \cup {ScaleABC, ReadmeABC, InvalidABC, <<>>, <<" ", "\n">>, <<"C", "D">>,
          ValidHeader \o <<"C", ",", ",", ",", ",", ",", ",">>,
          ValidHeader \o <<"b", "'", "'", "'", "'">>}

\* values that are not strings: undefined, null, 0, 5, an object
NonStrings == {Undefined, Null, Num(0), Num(5), [kind |-> "object"]}

\* options: left out, with optimize set, null
OptionChoices == <<Undefined, [optimize |-> TRUE], Null>>

InitConvert ==
    /\ pc = "validateInput"
    /\ ParserAtRest
    /\ GeneratorIdle
    /\ arg \in {Str(s) : s \in ConvertTexts} \cup NonStrings
    /\ \E o \in DOMAIN OptionChoices : options = OptionChoices[o]
    /\ conversion = Undefined
    /\ conversionHistory = <<>>
    /\ stats = Undefined
    /\ caller = "convert"
    /\ exception = Undefined
    /\ calls = 1
    /\ returned = <<>>

NextConvert ==
    \/ ConvertValidateInput
    \/ Next
    \/ ConvertValidateStructure
    \/ ConvertGenerate
    \/ ConvertCatch

SpecConvert == InitConvert /\ [][NextConvert]_vars

---------------------------------------------------------------------------
(* Calls made one after another on one ABCToMidiConverter and its parser.  *)

\* most calls made on the instances
MaxCalls == 3

\* the texts given to the calls: without a header, only a header line, with
\* a title and a key, and one that convert accepts
CallTexts ==
    {<<"C", "D">>,
     <<"K", ":", "D">>,
     <<"T", ":", "H", "i", "\n", "K", ":", "G", "\n", "G", "'", "2">>,
     ValidHeader \o <<"C", "2">>}

\* parser.parse(text), called from outside
CallParse ==
    /\ pc = "idle"
    /\ calls < MaxCalls
    /\ \E s \in CallTexts : abcString' = s
    /\ pc' = "parse"
    /\ caller' = "parse"
    /\ calls' = calls + 1
    /\ UNCHANGED <<lines, i, header, bodyText, lastIndex, match, notes,
                   currentOctave, currentAccidental, result, tempoString,
                   tempoResult, generatorVars, arg, options, stats, conversion,
                   conversionHistory, exception, returned>>

\* that call returns
ParseCallReturn ==
    /\ pc = "done"
    /\ caller = "parse"
    /\ returned' = Append(returned, [text |-> abcString, result |-> result])
    /\ pc' = "idle"
    /\ caller' = "none"
    /\ UNCHANGED <<parserVars, generatorVars, arg, options, stats, conversion,
                   conversionHistory, exception, calls>>

\* parser.validate(text), called from outside
CallValidate ==
    /\ pc = "idle"
    /\ calls < MaxCalls
    /\ \E s \in CallTexts :
          /\ abcString' = s
          /\ validation' = validate(s)
    /\ calls' = calls + 1
    /\ UNCHANGED <<pc, lines, i, header, bodyText, lastIndex, match, notes,
                   currentOctave, currentAccidental, result, tempoString,
                   tempoResult, midiNote, pitch, parsedMusic, instruments, track,
                   effects, midi, arg, options, stats, conversion, conversionHistory,
                   caller, exception, returned,
                   metadata>>

\* convert(text, options), called from outside
CallConvert ==
    /\ pc = "idle"
    /\ calls < MaxCalls
    /\ \E s \in CallTexts : arg' = Str(s)
    /\ \E o \in {1, 3} : options' = OptionChoices[o]
    /\ pc' = "validateInput"
    /\ caller' = "convert"
    /\ calls' = calls + 1
    /\ midi' = Undefined
    /\ exception' = Undefined
    /\ UNCHANGED <<parserVars, midiNote, pitch, parsedMusic, instruments, track,
                   effects, validation, conversion, conversionHistory, returned,
                   metadata, stats>>

InitCalls ==
    /\ pc = "idle"
    /\ ParserAtRest
    /\ GeneratorIdle
    /\ ConverterIdle

NextCalls ==
    \/ CallParse
    \/ ParseCallReturn
    \/ CallValidate
    \/ CallConvert
    \/ NextConvert

SpecCalls == InitCalls /\ [][NextCalls]_vars

---------------------------------------------------------------------------
(* The entry points of one ABCToMidiConverter, called one after another:   *)
(* convert, convertMultiTrack, convertWithEffects, getConversionStats and  *)
(* clearHistory (src/unnamed/part_001).                                    *)

\* the quotient n / d of two integers
Ratio(n, d) == [num |-> n, den |-> d]

\* getConversionStats, lines 191-207 (averageDuration, made of clock
\* readings, is left out as metadata.duration is)
getConversionStats(history) ==
    LET total == Len(history)
        successful == Cardinality({k \in 1..total : history[k].success})
        failed == total - successful
    IN  [totalConversions |-> total,
         successfulConversions |-> successful,
         failedConversions |-> failed,
         successRate |-> IF total > 0 THEN Ratio(successful * 100, total)
                         ELSE Ratio(0, 1),
         lastConversion |-> IF total > 0 THEN history[total] ELSE Undefined]

\* the texts given to convertMultiTrack and convertWithEffects: one that
\* convert accepts, one with a note of duration 0, the empty text
EntryTexts ==
    {ValidHeader \o <<"C", "2">>, ValidHeader \o <<"C", "'", "0">>, <<>>}

\* instruments: left out (the default ['piano']), two names
InstrumentLists == {<<"piano">>, <<"violin", "bass">>}

\* effects: left out (the default {}), both set, sustain only
EffectChoices ==
    <<[sustain |-> Undefined, vibrato |-> Undefined],
      [sustain |-> TRUE, vibrato |-> TRUE],
      [sustain |-> TRUE, vibrato |-> Undefined]>>

\* convertMultiTrack(text, instruments), called from outside
CallConvertMultiTrack ==
    /\ pc = "idle"
    /\ calls < MaxEntryCalls
    /\ \E s \in EntryTexts : abcString' = s
    /\ \E names \in InstrumentLists : instruments' = names
    /\ pc' = "parse"
    /\ caller' = "convertMultiTrack"
    /\ calls' = calls + 1
    /\ midi' = Undefined
    /\ UNCHANGED <<lines, i, header, bodyText, lastIndex, match, notes,
                   currentOctave, currentAccidental, result, tempoString,
                   tempoResult, midiNote, pitch, parsedMusic, track, effects,
                   validation, metadata, arg, options, stats, conversion,
                   conversionHistory, exception, returned>>

\* convertMultiTrack, line 95: parse has returned
ConvertMultiTrackParsed ==
    /\ pc = "done"
    /\ caller = "convertMultiTrack"
    /\ returned' = Append(returned, [text |-> abcString, result |-> result])
    /\ parsedMusic' = result
    /\ pc' = "multiTrack"
    /\ UNCHANGED <<parserVars, midiNote, pitch, instruments, track, effects, midi,
                   validation, metadata, arg, options, stats, conversion,
                   conversionHistory, caller, exception, calls>>

\* convertMultiTrack, lines 96-106
ConvertMultiTrackGenerate ==
    /\ pc = "multiTrack"
    /\ midi' = generateMultiTrack(parsedMusic, instruments)
    /\ conversion' =
          [success |-> TRUE,
           midiBuffer |-> midi',
           metadata |-> parsedMusic.header
                        @@ [instruments |-> instruments,
                            trackCount |-> Len(instruments)]]
    /\ pc' = "idle"
    /\ caller' = "none"
    /\ UNCHANGED <<parserVars, midiNote, pitch, parsedMusic, instruments, track,
                   effects, validation, metadata, arg, options, stats,
                   conversionHistory, exception, calls, returned>>

\* convertWithEffects(text, effects), called from outside
CallConvertWithEffects ==
    /\ pc = "idle"
    /\ calls < MaxEntryCalls
    /\ \E s \in EntryTexts : abcString' = s
    /\ \E e \in DOMAIN EffectChoices : effects' = EffectChoices[e]
    /\ pc' = "parse"
    /\ caller' = "convertWithEffects"
    /\ calls' = calls + 1
    /\ midi' = Undefined
    /\ UNCHANGED <<lines, i, header, bodyText, lastIndex, match, notes,
                   currentOctave, currentAccidental, result, tempoString,
                   tempoResult, midiNote, pitch, parsedMusic, instruments, track,
                   validation, metadata, arg, options, stats, conversion,
                   conversionHistory, exception, returned>>

\* convertWithEffects, line 113: parse has returned
ConvertWithEffectsParsed ==
    /\ pc = "done"
    /\ caller = "convertWithEffects"
    /\ returned' = Append(returned, [text |-> abcString, result |-> result])
    /\ parsedMusic' = result
    /\ pc' = "withEffects"
    /\ UNCHANGED <<parserVars, midiNote, pitch, instruments, track, effects, midi,
                   validation, metadata, arg, options, stats, conversion,
                   conversionHistory, caller, exception, calls>>

\* convertWithEffects with the MIDI made of the track the effects are on
ConvertWithEffectsOneTrack ==
    /\ pc = "withEffects"
    /\ track' = addEffects(generate(parsedMusic)[1], effects)
    /\ midi' = <<track'>>
    /\ conversion' =
          [success |-> TRUE,
           midiBuffer |-> midi',
           metadata |-> parsedMusic.header @@ [effects |-> effects]]
    /\ pc' = "idle"
    /\ caller' = "none"
    /\ UNCHANGED <<parserVars, midiNote, pitch, parsedMusic, instruments, effects,
                   validation, metadata, arg, options, stats,
                   conversionHistory, exception, calls, returned>>

\* convertWithEffects, lines 114-128: the effects go on a new track, the
\* MIDI is generated from parsedMusic
ConvertWithEffectsGenerate ==
    /\ pc = "withEffects"
    /\ track' = addEffects(<<>>, effects)
    /\ midi' = generate(parsedMusic)
    /\ conversion' =
          [success |-> TRUE,
           midiBuffer |-> midi',
           metadata |-> parsedMusic.header @@ [effects |-> effects]]
    /\ pc' = "idle"
    /\ caller' = "none"
    /\ UNCHANGED <<parserVars, midiNote, pitch, parsedMusic, instruments, effects,
                   validation, metadata, arg, options, stats,
                   conversionHistory, exception, calls, returned>>

\* clearHistory, lines 212-214
ClearHistory ==
    /\ pc = "idle"
    /\ calls < MaxEntryCalls
    /\ conversionHistory' = <<>>
    /\ calls' = calls + 1
    /\ UNCHANGED <<pc, parserVars, generatorVars, arg, options, stats, conversion,
                   caller, exception, returned>>

\* getConversionStats(), called from outside
GetConversionStatsCall ==
    /\ pc = "idle"
    /\ calls < MaxEntryCalls
    /\ stats' = getConversionStats(conversionHistory)
    /\ calls' = calls + 1
    /\ UNCHANGED <<pc, parserVars, generatorVars, arg, options, conversion,
                   conversionHistory, caller, exception, returned>>

\* convert(text, options), called from outside
CallConvertEntry ==
    /\ calls < MaxEntryCalls
    /\ CallConvert

InitEntryPoints ==
    /\ pc = "idle"
    /\ ParserAtRest
    /\ GeneratorIdle
    /\ ConverterIdle

NextEntryPoints ==
    \/ CallConvertEntry
    \/ CallConvertMultiTrack
    \/ CallConvertWithEffects
    \/ ClearHistory
    \/ GetConversionStatsCall
    \/ NextConvert
    \/ ConvertMultiTrackParsed
    \/ ConvertMultiTrackGenerate
    \/ ConvertWithEffectsParsed
    \/ ConvertWithEffectsGenerate

SpecEntryPoints == InitEntryPoints /\ [][NextEntryPoints]_vars

---------------------------------------------------------------------------
(* Vocabulary of the properties.                                           *)

\* the letter table as the documentation states it
BaseOf(c) ==
    CASE c = "C" -> 60 [] c = "D" -> 62 [] c = "E" -> 64 [] c = "F" -> 65
      [] c = "G" -> 67 [] c = "A" -> 69 [] c = "B" -> 71
      [] c = "c" -> 72 [] c = "d" -> 74 [] c = "e" -> 76 [] c = "f" -> 77
      [] c = "g" -> 79 [] c = "a" -> 81 [] c = "b" -> 83

\* the accidental offset the documentation states for a set of markers
OffsetOf(markers) ==
    IF \E k \in 1..Len(markers) : markers[k] = "=" THEN 0
    ELSE (IF \E k \in 1..Len(markers) : markers[k] = "^" THEN 1 ELSE 0)
         - (IF \E k \in 1..Len(markers) : markers[k] = "_" THEN 1 ELSE 0)

\* the octave shift the documentation states: apostrophes minus commas
ShiftOf(markers) ==
    Cardinality({k \in 1..Len(markers) : markers[k] = "'"})
    - Cardinality({k \in 1..Len(markers) : markers[k] = ","})

AllIn(s, S) == \A k \in 1..Len(s) : s[k] \in S

\* the body texts b such that the input is one of the enumerated header
\* blocks followed by b
BodiesOfInput ==
    {Substring(abcString, Len(h)) : h \in {g \in HeaderPrefixes : StartsWith(abcString, g)}}

\* b is a note letter followed by markers from S and nothing else
IsLetterThen(b, S) ==
    /\ b # <<>>
    /\ b[1] \in NoteLetters
    /\ AllIn(Tail(b), S)

\* b is a note letter, then octave markers, then digits
IsOctaveToken(b) ==
    /\ b # <<>>
    /\ b[1] \in NoteLetters
    /\ \E e \in 1..Len(b) :
          /\ AllIn(SubSeq(b, 2, e), OctaveMarks)
          /\ AllIn(SubSeq(b, e + 1, Len(b)), Digits)

IsDigits(s) == s # <<>> /\ AllIn(s, Digits)

\* s is <num>/<den>=<bpm>, with the slash at a and the equals sign at b
IsTempoFormAt(s, a, b) ==
    /\ a < b
    /\ s[a] = "/"
    /\ s[b] = "="
    /\ IsDigits(SubSeq(s, 1, a - 1))
    /\ IsDigits(SubSeq(s, a + 1, b - 1))
    /\ IsDigits(SubSeq(s, b + 1, Len(s)))

IsTempoForm(s) == \E a, b \in 1..Len(s) : IsTempoFormAt(s, a, b)

\* the number of lines of ls before the first that is not a header line,
\* the header lines being told by the test Recognized
BlockLen(ls, Recognized(_)) ==
    LET bad == {j \in 1..Len(ls) : ~Recognized(Trim(ls[j]))}
    IN  IF bad = {} THEN Len(ls) ELSE SetMin(bad) - 1

\* a header line as the data model lists them
IsHeaderLine(line) ==
    \/ line = <<>>
    \/ /\ Len(line) >= 2
       /\ line[2] = ":"
       /\ line[1] \in {"X", "T", "K", "M", "Q", "L", "V", "I"}

\* a header line as the external-interface grammar lists them, C: included
IsHeaderLineOrComposer(line) ==
    \/ IsHeaderLine(line)
    \/ /\ Len(line) >= 2
       /\ line[2] = ":"
       /\ line[1] = "C"

\* the lines among the first n of ls that carry the tag
TagLines(ls, n, tag) ==
    {j \in 1..n : LET l == Trim(ls[j]) IN Len(l) >= 2 /\ l[1] = tag /\ l[2] = ":"}

\* the text after the tag on the last line carrying it, or the default
FieldText(ls, n, tag, default) ==
    IF TagLines(ls, n, tag) = {} THEN default
    ELSE Substring(Trim(ls[SetMax(TagLines(ls, n, tag))]), 2)

HeaderScanned == pc \in {"parseBody", "noteLoop", "return", "done"}

---------------------------------------------------------------------------
(* C1: a body of n consecutive note letters after one of the header        *)
(* blocks parses to exactly n notes, the k-th being the k-th letter's      *)
(* MIDI number; the scale CDEFGABc gives the 8 notes 60 .. 72.             *)
C1_OneNotePerLetter ==
    pc = "done" =>
        \A b \in BodiesOfInput :
            (b # <<>> /\ AllIn(b, NoteLetters)) =>
                /\ Len(result.body) = Len(b)
                /\ \A k \in 1..Len(b) : result.body[k].midiNote = BaseOf(b[k])

(* C2: a note letter followed directly by the digits d parses to a note of *)
(* duration d, and to duration 1 without digits; C2D2 gives two notes of   *)
(* duration 2.                                                             *)
C2_DigitsGiveDuration ==
    pc = "done" =>
        /\ \A b \in BodiesOfInput :
              IsLetterThen(b, Digits) =>
                  /\ Len(result.body) = 1
                  /\ result.body[1].duration =
                        IF Len(b) = 1 THEN 1 ELSE DigitsToNat(Tail(b), 10)
        /\ abcString = <<"C", "2", "D", "2">> =>
              /\ Len(result.body) = 2
              /\ \A k \in 1..2 : result.body[k].duration = 2

(* C3: ^C parses to base + 1, _C to base - 1, and a note whose markers      *)
(* include = has offset 0 whatever other accidental markers it has.        *)
C3_AccidentalComposition ==
    pc = "done" =>
        \A b \in BodiesOfInput :
            /\ (Len(b) = 2 /\ b[1] = "^" /\ b[2] \in NoteLetters) =>
                  /\ Len(result.body) = 1
                  /\ result.body[1].midiNote = BaseOf(b[2]) + 1
            /\ (Len(b) = 2 /\ b[1] = "_" /\ b[2] \in NoteLetters) =>
                  /\ Len(result.body) = 1
                  /\ result.body[1].midiNote = BaseOf(b[2]) - 1
            /\ (IsLetterThen(b, {"^", "_", "="}) /\ Includes(b, "=")) =>
                  /\ Len(result.body) = 1
                  /\ result.body[1].midiNote = BaseOf(b[1])

(* C4: when parseHeader has returned, title, key, meter, tempo and         *)
(* defaultLength are the text after the last T:, K:, M:, Q: (through       *)
(* parseTempo) and L: line of the header block, and each field without a   *)
(* line keeps its own default: Untitled, C, 4/4, 120, undefined.           *)
C4_HeaderFields ==
    HeaderScanned =>
        LET n == BlockLen(lines, IsHeaderLine)
        IN  /\ header.title = FieldText(lines, n, "T", Untitled)
            /\ header.key = FieldText(lines, n, "K", <<"C">>)
            /\ header.meter = FieldText(lines, n, "M", <<"4", "/", "4">>)
            /\ header.tempo =
                  IF TagLines(lines, n, "Q") = {} THEN 120
                  ELSE parseTempo(FieldText(lines, n, "Q", <<>>))
            /\ header.defaultLength =
                  IF TagLines(lines, n, "L") = {} THEN Undefined
                  ELSE Str(FieldText(lines, n, "L", <<>>))

\* a header block that sets title and tempo and leaves key and meter alone
C4_Witness ==
    /\ pc = "done"
    /\ TagLines(lines, BlockLen(lines, IsHeaderLine), "T") # {}
    /\ TagLines(lines, BlockLen(lines, IsHeaderLine), "Q") # {}
    /\ TagLines(lines, BlockLen(lines, IsHeaderLine), "K") = {}
    /\ TagLines(lines, BlockLen(lines, IsHeaderLine), "M") = {}
    /\ result.header.title = <<"H", "i">>
    /\ result.header.tempo = 90
    /\ result.header.key = <<"C">>
    /\ result.header.meter = <<"4", "/", "4">>

(* C5: a C: line does not end the header: the fields of the lines after    *)
(* it are set, the notes come from the lines after the header block only,  *)
(* and the README example parses to 16 notes.                              *)
C5_ComposerLineIsHeader ==
    pc = "done" =>
        LET n == BlockLen(lines, IsHeaderLineOrComposer)
        IN  /\ result.header.key = FieldText(lines, n, "K", <<"C">>)
            /\ result.header.meter = FieldText(lines, n, "M", <<"4", "/", "4">>)
            /\ result.header.defaultLength =
                  IF TagLines(lines, n, "L") = {} THEN Undefined
                  ELSE Str(FieldText(lines, n, "L", <<>>))
            /\ result.header.tempo =
                  IF TagLines(lines, n, "Q") = {} THEN 120
                  ELSE parseTempo(FieldText(lines, n, "Q", <<>>))
            /\ n < Len(lines) => bodyText = Join(Slice(lines, n), " ")
            /\ abcString = ReadmeABC => Len(result.body) = 16

(* C6: a note letter followed by k apostrophes and m commas, then digits   *)
(* or nothing, parses to exactly one note with MIDI number                 *)
(* base + 12 * (k - m), of duration 1 when there are no digits.            *)
C6_OctaveShift ==
    pc = "done" =>
        \A b \in BodiesOfInput :
            IsOctaveToken(b) =>
                LET e == RunEndIn(b, 2, OctaveMarks)
                IN  /\ Len(result.body) = 1
                    /\ result.body[1].midiNote =
                          BaseOf(b[1]) + 12 * ShiftOf(SubSeq(b, 2, e))
                    /\ e = Len(b) => result.body[1].duration = 1

\* C,, has parsed to the single note 36 of duration 1
C6_Witness ==
    /\ pc = "done"
    /\ abcString = <<"C", ",", ",">>
    /\ Len(result.body) = 1
    /\ result.body[1].midiNote = 36
    /\ result.body[1].duration = 1

(* C7: a note letter followed by accidental and octave markers in any      *)
(* order parses to one note whose MIDI number counts all of them:          *)
(* base + accidental offset + 12 * (apostrophes - commas), the same for    *)
(* every order of the same markers.                                        *)
C7_MarkersInAnyOrder ==
    pc = "done" =>
        \A b \in BodiesOfInput :
            IsLetterThen(b, {"^", "_", "=", "'", ","}) =>
                /\ Len(result.body) = 1
                /\ result.body[1].midiNote =
                      BaseOf(b[1]) + OffsetOf(Tail(b)) + 12 * ShiftOf(Tail(b))

(* C7, amended: when the accidental markers all come before the octave     *)
(* markers, the note's MIDI number is base + accidental offset + 12 *      *)
(* (apostrophes - commas) whatever the order and repeats of the markers    *)
(* within each of the two groups.                                          *)
C7_AccidentalsThenOctaves ==
    pc = "done" =>
        \A b \in BodiesOfInput :
            (/\ IsLetterThen(b, {"^", "_", "=", "'", ","})
             /\ ~\E j, k \in 2..Len(b) :
                    j < k /\ b[j] \in OctaveMarks /\ b[k] \notin OctaveMarks) =>
                /\ Len(result.body) = 1
                /\ result.body[1].midiNote =
                      BaseOf(b[1]) + OffsetOf(Tail(b)) + 12 * ShiftOf(Tail(b))

\* C^' has parsed to the single note 73
C7_Witness ==
    /\ pc = "done"
    /\ abcString = <<"C", "^", "'">>
    /\ Len(result.body) = 1
    /\ result.body[1].midiNote = 73

(* C8: the note pushed for a match has midiNote = base of the matched      *)
(* letter + accidental offset + 12 * octave shift, unclamped, and the      *)
(* returned body is the list of pushed notes: C,,,,,, returns -12.         *)
C8_MidiNoteFormula ==
    /\ (pc = "noteLoop" /\ match # Null) =>
          notes[Len(notes)].midiNote =
              BaseOf(match.note) + OffsetOf(match.accidental)
              + 12 * ShiftOf(match.octave)
    /\ pc = "done" =>
          /\ result.body = notes
          /\ abcString = <<"C", ",", ",", ",", ",", ",", ",">> =>
                result.body[1].midiNote = -12
          /\ abcString = <<"b", "'", "'", "'", "'">> =>
                result.body[1].midiNote = 131

\* a returned note list that holds a MIDI number below 0
C8_Witness ==
    /\ pc = "done"
    /\ \E k \in 1..Len(result.body) : result.body[k].midiNote < 0

(* C9: parseTempo returns bpm for <num>/<den>=<bpm> and n for the bare     *)
(* integer n.                                                              *)
C9_TempoForms ==
    pc = "done" =>
        /\ \A a, b \in 1..Len(tempoString) :
              IsTempoFormAt(tempoString, a, b) =>
                  tempoResult =
                      DigitsToNat(SubSeq(tempoString, b + 1, Len(tempoString)), 10)
        /\ IsDigits(tempoString) => tempoResult = DigitsToNat(tempoString, 10)

\* 1/4=120 has given 120
C9_Witness ==
    /\ pc = "done"
    /\ tempoString = <<"1", "/", "4", "=", "1", "2", "0">>
    /\ tempoResult = 120

(* C10: parseTempo returns 120 for every field that is neither             *)
(* <num>/<den>=<bpm> nor a bare integer.                                   *)
C10_OtherFieldsDefault ==
    (pc = "done" /\ ~IsTempoForm(tempoString) /\ ~IsDigits(tempoString)) =>
        tempoResult = 120

\* the names of the twelve pitch classes as the documentation lists them
PitchClassNames ==
    [k \in 0..11 |->
        CASE k = 0 -> "C" [] k = 1 -> "C#" [] k = 2 -> "D" [] k = 3 -> "D#"
          [] k = 4 -> "E" [] k = 5 -> "F" [] k = 6 -> "F#" [] k = 7 -> "G"
          [] k = 8 -> "G#" [] k = 9 -> "A" [] k = 10 -> "A#" [] k = 11 -> "B"]

\* C11: for a note number n in 0..127, midiNoteToPitch returns the name of
\* pitch class n mod 12 followed by the decimal text of floor(n / 12) - 1;
\* 60 gives "C4", 69 gives "A4" and 0 gives "C-1".
C11_PitchName ==
    (pc = "done" /\ midiNote \in 0..127) =>
        /\ pitch = PitchClassNames[midiNote % 12] \o ToString((midiNote \div 12) - 1)
        /\ (midiNote = 60 => pitch = "C4")
        /\ (midiNote = 69 => pitch = "A4")
        /\ (midiNote = 0 => pitch = "C-1")

\* C11 witness: the call on note number 0 has returned "C-1"
C11_Witness == pc = "done" /\ midiNote = 0 /\ pitch = "C-1"

\* the number x equals n / d
IsNumber(x, n, d) == IF IsFraction(x) THEN x.num * d = n * x.den ELSE x * d = n

\* the tick name the documentation gives for a duration
TicksOf(x) ==
    CASE IsNumber(x, 1, 4) -> "T32" [] IsNumber(x, 1, 2) -> "T16"
      [] IsNumber(x, 1, 1) -> "T8" [] IsNumber(x, 2, 1) -> "T4"
      [] IsNumber(x, 4, 1) -> "T2" [] IsNumber(x, 8, 1) -> "T1"
      [] OTHER -> "T8"

\* C12: convertNotesToEvents gives each note the tick name of its duration:
\* 0.25 T32, 0.5 T16, 1 T8, 2 T4, 4 T2, 8 T1, and T8 for every duration that
\* is not in the table (3, for one).
C12_DurationTicks ==
    pc = "convertNotesToEvents" =>
        /\ Len(track) = Len(parsedMusic.body)
        /\ \A k \in 1..Len(track) :
              /\ track[k].duration = TicksOf(parsedMusic.body[k].duration)
              /\ (IsNumber(parsedMusic.body[k].duration, 3, 1) => track[k].duration = "T8")

\* C12 witness: a body of a 0.25 note and a 3 note gave T32 and T8
C12_Witness ==
    /\ pc = "convertNotesToEvents"
    /\ Len(track) = 2
    /\ IsNumber(parsedMusic.body[1].duration, 1, 4) /\ track[1].duration = "T32"
    /\ IsNumber(parsedMusic.body[2].duration, 3, 1) /\ track[2].duration = "T8"

\* header.tempo is absent or 0
TempoAbsentOrZero(h) == ToString(h.tempo) \in {ToString(Undefined), ToString(0)}

\* C13: generate builds one track: a tempo event (header.tempo, or 120 when
\* that is absent or 0), then one program change with instrument 0, then one
\* note event per body element, in order, each with velocity 100 on channel
\* 0; the number of note events is the length of the body.
C13_GenerateOneTrack ==
    pc = "generate" =>
        /\ Len(midi) = 1
        /\ Len(midi[1]) = 2 + Len(parsedMusic.body)
        /\ midi[1][1].type = "tempo"
        /\ midi[1][1].bpm = (IF TempoAbsentOrZero(parsedMusic.header) THEN 120
                             ELSE parsedMusic.header.tempo)
        /\ midi[1][2].type = "programChange"
        /\ midi[1][2].instrument = 0
        /\ \A k \in 1..Len(parsedMusic.body) :
              /\ midi[1][2 + k].type = "note"
              /\ midi[1][2 + k].pitch = <<midiNoteToPitch(parsedMusic.body[k].midiNote)>>
              /\ midi[1][2 + k].velocity = 100
              /\ midi[1][2 + k].channel = 0

\* C13 witness: a header with tempo 0 and a body of two notes gave a track
\* that starts with tempo 120 and holds two note events
C13_Witness ==
    /\ pc = "generate"
    /\ ToString(parsedMusic.header.tempo) = ToString(0)
    /\ Len(parsedMusic.body) = 2
    /\ midi[1][1].bpm = 120
    /\ midi[1][4].type = "note"

\* the number of messages about note k with the given text
ErrorCount(errors, k, text) ==
    Cardinality({e \in 1..Len(errors) : errors[e].nota = k /\ errors[e].text = text})

\* C15: validateMidiNotes adds one message naming the 1-based position k for
\* each note whose midiNote is below 0 or above 127, one for each note whose
\* duration is at most 0, and nothing else; isValid holds exactly when there
\* is no message.
C15_ValidateMidiNotes ==
    pc = "validateMidiNotes" =>
        LET ns == parsedMusic.body
            errors == validation.errors
        IN  /\ \A k \in 1..Len(ns) :
                 /\ ErrorCount(errors, k, "MIDI note fuera de rango (0-127)")
                      = (IF ns[k].midiNote < 0 \/ ns[k].midiNote > 127 THEN 1 ELSE 0)
                 /\ ErrorCount(errors, k, "Duracion invalida")
                      = (IF AtMostZero(ns[k].duration) THEN 1 ELSE 0)
            /\ \A e \in 1..Len(errors) :
                 /\ errors[e].nota \in 1..Len(ns)
                 /\ errors[e].text \in {"MIDI note fuera de rango (0-127)",
                                        "Duracion invalida"}
            /\ validation.isValid <=> (errors = <<>>)

\* C15 witness: the second of two notes has midiNote 128 and a duration
\* below 0, and two messages name note 2
C15_Witness ==
    /\ pc = "validateMidiNotes"
    /\ Len(parsedMusic.body) = 2
    /\ parsedMusic.body[2].midiNote = 128
    /\ Len(validation.errors) >= 2
    /\ validation.errors[Len(validation.errors)].nota = 2
    /\ ~validation.isValid

\* C19: generateMultiTrack gives one track per name, in the order of the
\* names; each starts with a program change whose instrument is the table's
\* value for the name, or 0 for a name that is not in the table, and goes on
\* with the note events generate gives for the same body.
C19_MultiTrack ==
    pc = "generateMultiTrack" =>
        /\ Len(midi) = Len(instruments)
        /\ \A t \in 1..Len(midi) :
              /\ midi[t][1].type = "programChange"
              /\ ToString(midi[t][1].instrument)
                   = ToString(IF instruments[t] \in DOMAIN instrumentTable
                              THEN instrumentTable[instruments[t]] ELSE 0)
              /\ Tail(midi[t]) = Tail(Tail(generate(parsedMusic)[1]))

\* the flag is one of the enumerated values that count as true
IsSet(flag) == ToString(flag) \in {ToString(TRUE), ToString(1)}

\* C20: addEffects appends a controller event (64, 127) exactly when
\* effects.sustain is truthy, then a controller event (1, 64) exactly when
\* effects.vibrato is truthy, and nothing else; the events the track already
\* held stay as they were.
C20_AddEffects ==
    [][(pc = "convertNotesToEvents" /\ pc' = "addEffects") =>
         track' = track
                  \o (IF IsSet(effects'.sustain)
                      THEN <<[type |-> "controller", controllerNumber |-> 64,
                              controllerValue |-> 127]>>
                      ELSE <<>>)
                  \o (IF IsSet(effects'.vibrato)
                      THEN <<[type |-> "controller", controllerNumber |-> 1,
                              controllerValue |-> 64]>>
                      ELSE <<>>)]_vars

\* C20 witness: both effects were asked for on a track of two notes, which
\* now ends with the controllers (64, 127) and (1, 64)
C20_Witness ==
    /\ pc = "addEffects"
    /\ IsSet(effects.sustain) /\ IsSet(effects.vibrato)
    /\ Len(track) = 4
    /\ track[1].type = "note"
    /\ track[3].controllerNumber = 64
    /\ track[4].controllerNumber = 1

\* the line starts with one of the header tags X: T: C: M: L: K: Q:
IsTagLine(line) ==
    /\ Len(line) >= 2
    /\ line[1] \in {"X", "T", "C", "M", "L", "K", "Q"}
    /\ line[2] = ":"

\* the characters the documentation allows in note text
NoteTextChars ==
    {"A", "B", "C", "D", "E", "F", "G", "a", "b", "c", "d", "e", "f", "g",
     "0", "1", "2", "3", "4", "5", "6", "7", "8", "9",
     " ", "\n", "\t", "\r", ",", ".", "'", "^", "_", "=", "|",
     "[", "]", "(", ")", "{", "}"}

\* the characters outside that set in the lines of s that are neither blank
\* nor header-tag lines
BadChars(s) ==
    LET ls == Split(s, "\n")
    IN  UNION {{ls[j][k] : k \in {q \in 1..Len(ls[j]) : ls[j][q] \notin NoteTextChars}} :
                  j \in {r \in 1..Len(ls) : ~IsTagLine(ls[r])
                                            /\ \E q \in 1..Len(ls[r]) : ls[r][q] \notin WhiteSpace}}

\* the text t occurs in s
Occurs(s, a, b) == \E k \in 1..(Len(s) - 1) : s[k] = a /\ s[k + 1] = b

\* the checks of validate that fail on s
FailedChecks(s) ==
    (IF \A k \in 1..Len(s) : s[k] \notin NoteLetters THEN {"letter"} ELSE {})
    \cup (IF ~Occurs(s, "K", ":") THEN {"key"} ELSE {})
    \cup (IF ~Occurs(s, "M", ":") THEN {"meter"} ELSE {})
    \cup (IF BadChars(s) # {} THEN {"chars"} ELSE {})

\* C14: for a text that is not empty, validate returns isValid = false
\* exactly when the text has no letter A-G or a-g, or no "K:", or no "M:", or
\* a line that is neither blank nor a header-tag line holds a character
\* outside the allowed set; each failing check adds one message, and the
\* message about characters lists every distinct invalid character once.
\* "ABC inválido sin estructura" is invalid, with the message about the
\* missing key and the message about characters.
C14_Validate ==
    (pc = "validated" /\ Trim(abcString) # <<>>) =>
        LET errors == validation.errors
            listed == {errors[e].list : e \in {q \in 1..Len(errors) :
                          errors[q].text = "Caracteres inválidos en las notas: "}}
        IN  /\ validation.isValid = FALSE <=> FailedChecks(abcString) # {}
            /\ Len(errors) = Cardinality(FailedChecks(abcString))
            /\ ("key" \in FailedChecks(abcString))
                 <=> \E e \in 1..Len(errors) : errors[e].text = "Falta la clave (K:)"
            /\ ("chars" \in FailedChecks(abcString)) <=> listed # {}
            /\ \A list \in listed :
                  /\ \A c \in BadChars(abcString) : CountOf(list, c) = 1
                  /\ Len(list) = 3 * Cardinality(BadChars(abcString)) - 2
            /\ abcString = InvalidABC =>
                  /\ ~validation.isValid
                  /\ {"key", "chars"} \subseteq FailedChecks(abcString)

\* C14 witness: the text of the end-to-end test was found invalid, with
\* three messages, the last listing its ten invalid characters
C14_Witness ==
    /\ pc = "validated"
    /\ abcString = InvalidABC
    /\ ~validation.isValid
    /\ Len(validation.errors) = 3
    /\ Len(validation.errors[3].list) = 28

\* a list of at least one message
IsMessageList(details) == Len(details) >= 1

\* an exception was thrown inside the try block
Caught == ToString(exception) # ToString(Undefined)

\* C16: convert never lets an exception escape: for every argument, string
\* or not, it returns an object whose success is a boolean, and when success
\* is false the error is "Entrada inválida" (the input failed validation),
\* "Estructura musical inválida" (the parsed music failed validation) or
\* "Error durante la conversión" (an exception was caught), with the
\* messages in details.
C16_ConvertNeverThrows ==
    /\ pc # "thrown"
    /\ pc = "idle" =>
          /\ conversion.success \in BOOLEAN
          /\ conversion.success = FALSE =>
                /\ conversion.error \in {"Entrada inválida",
                                         "Estructura musical inválida",
                                         "Error durante la conversión"}
                /\ conversion.error = "Entrada inválida" =>
                      (result = Undefined /\ IsMessageList(conversion.details))
                /\ conversion.error = "Estructura musical inválida" =>
                      (result # Undefined /\ IsMessageList(conversion.details))
                /\ conversion.error = "Error durante la conversión" =>
                      (Caught /\ conversion.details = exception)

\* C16 witness: a call whose options argument is null has returned the
\* failure "Error durante la conversión"
C16_Witness ==
    /\ pc = "idle"
    /\ options = Null
    /\ conversion.success = FALSE
    /\ conversion.error = "Error durante la conversión"

\* generate has been called in this convert call
Generated == ToString(midi) # ToString(Undefined)

\* every note of the list can be played: at least one note, each with
\* midiNote in 0..127 and a duration above 0
Playable(ns) ==
    /\ Len(ns) >= 1
    /\ \A k \in 1..Len(ns) : ns[k].midiNote \in 0..127 /\ ns[k].duration > 0

\* C17: convert runs validateInput, parse, validateMusicStructure and
\* generate in that order and the first validation that fails ends the call:
\* the parser is not called for an empty, white-space or non-string
\* argument; generate is called only when the parsed body has at least one
\* note and every note has midiNote in 0..127 and duration above 0; so
\* success = true implies noteCount >= 1.
C17_StepOrder ==
    /\ pc \in ParsePositions =>
          /\ arg.kind = "string"
          /\ \E k \in 1..Len(arg.value) : arg.value[k] \notin WhiteSpace
          /\ ~Generated
    /\ result = Undefined => ~Generated
    /\ Generated => (result # Undefined /\ Playable(result.body))
    /\ pc = "generate" => (result # Undefined /\ Playable(result.body))
    /\ pc = "idle" =>
          /\ conversion.success = TRUE =>
                (Generated /\ conversion.metadata.noteCount >= 1)
          /\ (conversion.success = FALSE /\ conversion.error = "Entrada inválida") =>
                (result = Undefined /\ ~Generated)
          /\ (conversion.success = FALSE
              /\ conversion.error = "Estructura musical inválida") =>
                (result # Undefined /\ ~Generated)

\* C17 witness: the parsed body holds a note that cannot be played, the call
\* ended with "Estructura musical inválida" and generate was not called
C17_Witness ==
    /\ pc = "idle"
    /\ conversion.success = FALSE
    /\ conversion.error = "Estructura musical inválida"
    /\ Len(result.body) >= 1
    /\ ~Generated

\* C18: parsing is deterministic and keeps no state between calls: two parse
\* calls on the same parser with the same text, whatever parse, validate or
\* convert calls were made in between, return the same header, body and
\* metadata.
C18_ParseDeterministic ==
    \A a, b \in 1..Len(returned) :
        returned[a].text = returned[b].text =>
            /\ returned[a].result.header = returned[b].result.header
            /\ returned[a].result.body = returned[b].result.body
            /\ returned[a].result.metadata = returned[b].result.metadata

\* C18 witness: the first and the third parse were given the same text, with
\* a parse of another text in between, and returned the same object
C18_Witness ==
    /\ Len(returned) = 3
    /\ returned[1].text = returned[3].text
    /\ returned[2].text # returned[1].text
    /\ returned[2].result.header.title # returned[1].result.header.title
    /\ returned[1].result = returned[3].result

\* the text is given: present and not the empty string
IsGiven(text) == ToString(text) \notin {ToString(Undefined), ToString(<<>>)}

\* C21: generateWithMetadata adds a text event for the title, when one is
\* given, and then a text event for the composer, when one is given, before
\* the tempo, program change and note events; the events after the text
\* events are those that generate gives for the same music, and with neither
\* text given the events are those of generate.
C21_GenerateWithMetadata ==
    pc = "generateWithMetadata" =>
        LET texts == (IF IsGiven(metadata.title)
                      THEN <<[type |-> "text", text |-> metadata.title]>> ELSE <<>>)
                     \o (IF IsGiven(metadata.composer)
                         THEN <<[type |-> "text", text |-> metadata.composer]>>
                         ELSE <<>>)
        IN  /\ Len(midi) = 1
            /\ Len(midi[1]) = Len(texts) + Len(generate(parsedMusic)[1])
            /\ \A k \in 1..Len(texts) :
                  /\ midi[1][k].type = "text"
                  /\ midi[1][k].text = texts[k].text
            /\ SubSeq(midi[1], Len(texts) + 1, Len(midi[1])) = generate(parsedMusic)[1]
            /\ (~IsGiven(metadata.title) /\ ~IsGiven(metadata.composer)) =>
                  midi = generate(parsedMusic)

\* C21 witness: a title and a composer were given with a body of one note:
\* two text events, then tempo, program change and the note
C21_Witness ==
    /\ pc = "generateWithMetadata"
    /\ IsGiven(metadata.title) /\ IsGiven(metadata.composer)
    /\ Len(parsedMusic.body) = 1
    /\ Len(midi[1]) = 5
    /\ midi[1][1].text = <<"V", "a", "l", "s">>
    /\ midi[1][2].text = <<"B", "o">>
    /\ midi[1][3].type = "tempo"

\* C22: the notes parse returns come only from the lines at or after the
\* boundary between header and body, the first line that is not a header
\* line: the text of header lines never becomes a note, and an input whose
\* lines are all header lines gives an empty list of notes.
C22_NotesFromBodyOnly ==
    pc = "done" =>
        LET n == BlockLen(lines, IsHeaderLine)
        IN  /\ n < Len(lines) =>
                  bodyText = Join(SubSeq(lines, n + 1, Len(lines)), " ")
            /\ n = Len(lines) => result.body = <<>>

\* the list holds a message about the duration of a note
ReportsDuration(errors) ==
    \E e \in 1..Len(errors) : errors[e].text = "Duracion invalida"

\* C23: every note parse returns has a duration above 0, and
\* validateMidiNotes reports no invalid duration for the notes of a parse.
C23_DurationPositive ==
    pc = "done" =>
        /\ \A k \in 1..Len(result.body) : result.body[k].duration > 0
        /\ ~ReportsDuration(validateMidiNotes(result.body).errors)

\* validate added the message about invalid characters
ReportsChars(errors) ==
    \E e \in 1..Len(errors) : errors[e].text = "Caracteres inválidos en las notas: "

\* C24: when every line after the header block the parser consumes (tag
\* lines X: T: K: M: Q: L:, V: and I: lines and blank lines, leading
\* whitespace allowed) holds only allowed characters, validate adds no
\* message about invalid characters.
C24_HeaderLinesNotChecked ==
    (pc = "validated" /\ Trim(abcString) # <<>>) =>
        LET ls == Split(abcString, "\n")
            n == BlockLen(ls, IsHeaderLine)
        IN  (\A j \in (n + 1)..Len(ls) :
                \A k \in 1..Len(ls[j]) : ls[j][k] \in NoteTextChars)
                => ~ReportsChars(validation.errors)


\* C25: while parseBody runs and after it, currentOctave is 4 and
\* currentAccidental is 0; the note pushed for a match has the octave field
\* 4 plus the shift of the match's own octave markers, whatever the case of
\* its letter, and the midiNote given by the match's own letter and markers;
\* the midiNote of every note in the list is the one of its own letter (in
\* either case), accidental and octave fields.
C25_NoCarriedState ==
    /\ pc \in {"noteLoop", "return", "done"} =>
          currentOctave = 4 /\ currentAccidental = 0
    /\ (pc = "noteLoop" /\ match # Null) =>
          LET n == notes[Len(notes)]
          IN  /\ n.octave = 4 + ShiftOf(match.octave)
              /\ n.midiNote = BaseOf(match.note) + OffsetOf(match.accidental)
                                + 12 * ShiftOf(match.octave)
    /\ pc \in {"noteLoop", "return", "done"} =>
          \A k \in 1..Len(notes) :
              notes[k].midiNote
                - (BaseOf(notes[k].note) + OffsetOf(notes[k].accidental)
                   + 12 * (notes[k].octave - 4)) \in {0, 12}

\* C25 witness: after C' the lowercase e was pushed with octave 4 and
\* midiNote 76, the first note keeping octave 5
C25_Witness ==
    /\ pc = "noteLoop"
    /\ match # Null
    /\ match.note = "e"
    /\ Len(notes) = 2
    /\ notes[1].octave = 5
    /\ notes[1].midiNote = 72
    /\ notes[2].octave = 4
    /\ notes[2].midiNote = 76


\* the number of note letters of a text
LetterCount(text) == Cardinality({k \in 1..Len(text) : text[k] \in NoteLetters})

\* C26: every call of parse returns; each iteration of the note loop moves
\* lastIndex forward by at least one character and pushes one note, so the
\* notes are never more than the note letters of the body nor lastIndex
\* beyond its end; each iteration of the header scan moves to the next line
\* and the scan never goes past the last line.
C26_ParseTerminates ==
    /\ [](pc \in {"noteLoop", "return", "done"} =>
            /\ Len(notes) <= LetterCount(bodyText)
            /\ lastIndex <= Len(bodyText))
    /\ [](pc = "parseHeader" => i <= Len(lines))
    /\ [][(pc = "noteLoop" /\ pc' = "noteLoop") =>
            /\ lastIndex' > lastIndex
            /\ Len(notes') = Len(notes) + 1]_vars
    /\ [][(pc = "parseHeader" /\ pc' = "parseHeader") => i' = i + 1]_vars
    /\ <>(pc = "done")

\* C26 witness: parse returned after two header lines and two iterations of
\* the note loop over the body C'C
C26_Witness ==
    /\ pc = "done"
    /\ header.lineCount = 2
    /\ bodyText = <<"C", "'", "C">>
    /\ Len(result.body) = 2


\* the characters that end a line for the pattern of comments
LineEnds == {"\n", "\r"}

\* the positions of s holding the first '%' of their line
FirstPercents(s) ==
    {p \in 1..Len(s) :
        /\ s[p] = "%"
        /\ \A q \in 1..(p - 1) :
              s[q] = "%" => \E t \in (q + 1)..(p - 1) : s[t] \in LineEnds}

\* the text from after position p to the end of its line
RestOfLine(s, p) ==
    LET ends == {t \in (p + 1)..Len(s) : s[t] \in LineEnds}
    IN  SubSeq(s, p + 1, IF ends = {} THEN Len(s) ELSE SetMin(ends) - 1)

\* t without the white space at its two ends
Stripped(t) ==
    LET ink == {k \in 1..Len(t) : t[k] \notin {" ", "\t", "\n", "\r"}}
    IN  IF ink = {} THEN <<>> ELSE SubSeq(t, SetMin(ink), SetMax(ink))

\* C27: the metadata parse returns is taken from the whole input, header
\* lines included: barCount is the number of '|' in the input; comments
\* holds, in order, one entry for each line (a run of characters between
\* line terminators) that holds a '%', the text after the line's first '%'
\* without the white space around it; without a '%' comments is empty.
C27_Metadata ==
    pc = "done" =>
        LET comments == result.metadata.comments
            firsts == FirstPercents(abcString)
        IN  /\ result.metadata.barCount
                 = Cardinality({k \in 1..Len(abcString) : abcString[k] = "|"})
            /\ Len(comments) = Cardinality(firsts)
            /\ \A p \in firsts :
                  comments[Cardinality({q \in firsts : q <= p})]
                      = Stripped(RestOfLine(abcString, p))
            /\ (\A k \in 1..Len(abcString) : abcString[k] # "%") => comments = <<>>

\* C27 witness: a header line with a comment and a body line with a bar
\* line and a comment gave two comments and one bar
C27_Witness ==
    /\ pc = "done"
    /\ abcString = <<"K", ":", "C", " ", "%", "x", "\n",
                     "C", "|", "D", " ", "%", " ", " ", "y", " ", "z", " ">>
    /\ result.metadata.barCount = 1
    /\ result.metadata.comments = <<<<"x">>, <<"y", " ", "z">>>>


\* C28: at each place where an entry point calls the generator (convert,
\* convertMultiTrack, convertWithEffects) the parsed body has at least one
\* note and every note has midiNote in 0..127 and a duration above 0.
C28_ValidatedBeforeGeneration ==
    pc \in {"generate", "multiTrack", "withEffects"} => Playable(parsedMusic.body)


\* getConversionStats has returned an object
HasStats == "totalConversions" \in DOMAIN stats

\* the object reports no failure: every conversion counted is a success and
\* the rate is 0 for no conversion and 100 otherwise
ReportsNoFailure(st) ==
    /\ st.failedConversions = 0
    /\ st.totalConversions = st.successfulConversions
    /\ st.totalConversions = 0 => st.successRate.num = 0
    /\ st.totalConversions > 0 => st.successRate.num = 100 * st.successRate.den

\* C29: across calls of convert, convertMultiTrack, convertWithEffects,
\* getConversionStats and clearHistory, conversionHistory changes only when
\* a convert call returns success (its result is appended) and when
\* clearHistory empties it; a convert call that fails, and every call of
\* convertMultiTrack and convertWithEffects, leaves it as it was.  So every
\* entry is a success, and getConversionStats reports failedConversions = 0,
\* totalConversions = successfulConversions and a successRate of 0 (empty
\* history) or 100.
C29_HistoryOfSuccesses ==
    /\ [](\A k \in 1..Len(conversionHistory) : conversionHistory[k].success = TRUE)
    /\ [](ReportsNoFailure(getConversionStats(conversionHistory)))
    /\ [](HasStats => ReportsNoFailure(stats))
    /\ [][(caller = "convert" /\ caller' = "none") =>
            IF conversion'.success
            THEN conversionHistory' = Append(conversionHistory, conversion')
            ELSE (conversionHistory' = conversionHistory)]_vars
    /\ [][(caller \in {"convertMultiTrack", "convertWithEffects"}) =>
            (conversionHistory' = conversionHistory)]_vars
    /\ [][(Len(conversionHistory') # Len(conversionHistory)) =>
            (\/ caller = "convert" /\ caller' = "none"
             \/ caller = "none" /\ caller' = "none" /\ conversionHistory' = <<>>)]_vars

\* C29 witness: after a convert call that succeeded, getConversionStats
\* reported one conversion, one success and a rate of 100
C29_Witness ==
    /\ pc = "idle"
    /\ Len(conversionHistory) = 1
    /\ HasStats
    /\ stats.totalConversions = 1
    /\ stats.successfulConversions = 1
    /\ stats.successRate = Ratio(100, 1)


\* the events of every track of a MIDI that are of the given type
EventsOfType(tracks, type) ==
    {<<t, k>> \in UNION {{<<t, k>> : k \in 1..Len(tracks[t])} : t \in 1..Len(tracks)} :
        tracks[t][k].type = type}

====
